---- MODULE Spec2Model ----
(***************************************************************************)
(* Verification model of the 10KAY pipeline orchestration core:            *)
(*   - orchestrate_parallel.py : phase-overlap orchestrator                *)
(*   - analyze_parallel.py     : bounded worker pool over process_filing   *)
(*   - pipeline/analyzers      : skip-if-done check, analysis, persistence *)
(*   - pipeline/fetchers       : rate limiter, fetch stage                 *)
(* Each component has its own specification over the shared variable list. *)
(***************************************************************************)
EXTENDS Integers, Sequences, FiniteSets, TLC

(***************************************************************************)
(* Bounds of the model                                                     *)
(***************************************************************************)
MaxTotal == 11
MaxFilings == 2
MaxWorkers == 2
MaxCalls == 3
IntervalTicks == 2
MaxContent == 2
PipeCap == 1
MaxSubscribers == 2
MaxRuns == 2
MaxRateWorkers == 2
MaxWorkerCalls == 2
MaxScraperCalls == 2
MaxScraperTime == 10
MaxAudience == 2
MaxScrapes == 8

(***************************************************************************)
(* Variables                                                               *)
(***************************************************************************)
VARIABLES
    \* ---- orchestrate_parallel.py : main ----
    args,               \* parsed command line: analyze_only, generate_only, publish
    opc,                \* position of main()
    analyze_process,    \* "none" | "running" | "exit0" | "exit1"
    generate_process,   \* "none" (None) | "running" | "exit0" | "exit1"
    publish_process,    \* "none" (None) | "running" | "exit0" | "exit1"
    generate_triggered, \* the flag of main()
    percent,            \* last value returned to the trigger check, in tenths of a percent
    total,              \* filings of enabled companies in the store
    analyzed,           \* of these, filings that have a content record
    launches,           \* history: calls of start_generate_phase made by the monitor loop
    reached,            \* history: some trigger poll has observed percent >= 10
    sawBelow,           \* history: some trigger poll has observed 0 < percent < 10
    launchPercent,      \* history: percent seen by the poll that launched generate, -1 if none
    pipe,               \* per stage: lines written by the child and not yet read by main()
    verdict,            \* per stage: what wait_for_process printed about its exit code
    orch_exit,          \* exit code of the orchestrator, -1 while it runs
    \* ---- the shared relational store ----
    filingStatus,       \* filings.status per filing id, "absent" when there is no row
    contentRows,        \* number of content rows per filing id
    content_status_default, \* content.status of a row the pipeline inserted (set by the schema only)
    \* ---- analyze_parallel.py : main, analyze_filing ----
    pargs,              \* parsed command line: workers, limit, dry_run
    mpc,                \* position of main()
    exit_code,          \* exit code of the runner's process, -1 while it runs
    store_failed,       \* history: the connect or the candidate query raised
    pending_filings,    \* the candidate list, a sequence of filing ids
    nsubmitted,         \* tasks submitted to the executor so far
    threads,            \* worker threads the executor has started
    task,               \* per candidate index: pc, excAt, pf, res, rowsSeen
    collected,          \* indices whose future main() has consumed
    completed,          \* the counters of main()
    successful,
    failed,
    \* ---- a second analyzer process on the same store (pipeline/main.py analyze_phase) ----
    peerPc,
    peerList,
    peerFiling,
    peerRowsSeen,
    \* ---- history of the store ----
    savesEntered,       \* per filing: invocations of process_filing that reached save_to_database
    insertAttempts,     \* per filing: INSERT INTO content statements executed
    \* ---- pipeline/fetchers/edgar.py : EdgarFetcher rate limiter ----
    now,                \* the clock, in ticks
    last_request_time,  \* the field of the fetcher
    rpc,                \* position of the calling thread in _rate_limit
    wakeAt,             \* earliest time at which the pending time.sleep returns
    calls,              \* calls of _rate_limit that have returned
    firstStart,         \* history: time at which the first call was made, -1 if none
    prevStamp,          \* history: the last two values written to last_request_time
    lastStamp,
    prevReturn,         \* history: the times of the last two returns
    lastReturn,
    slept,              \* history: some call had to sleep
    \* ---- pipeline/fetchers/base.py : two runs of process_company ----
    listed,             \* what fetch_latest_filings returns: accession numbers, in order
    frun,               \* 1, 2, or 3 when both runs are over
    fpc,                \* position in process_company
    fidx,               \* index of the filing of the loop
    processed,          \* the counter of process_company
    returned,           \* per run: the value process_company returned, -1 if none or raised
    savedBy,            \* history, per run: accession numbers the run saved
    extraRows,          \* per accession: filings rows beyond the first
    \* ---- scripts/backfill_bull_bear.py : the re-analysis tool ----
    resetPc,
    resetList,
    resetFiling,
    resets,             \* history: filings the tool has reset
    \* ---- the publish stage: pipeline/main.py publish_phase, publish_backfill.py ----
    pubArgs,            \* runner ("phase" | "backfill"), dry_run, limit (0 when not given)
    ppc,                \* position of the runner
    pub_exit,           \* exit code of the runner's process, -1 while it runs
    pcontent,           \* content rows: email_html, published_at, status
    deliveries,         \* per content id: email_deliveries rows by status
    subscribers,        \* enabled subscribers
    emails_sent,        \* history: requests posted to the mail API
    ready_content,      \* the candidate list of the run
    pubIdx,             \* index of the loop over ready_content
    total_published,    \* the counter of publish_phase
    published_count,    \* the counters of publish_batch
    failed_count,
    total_failed,       \* the counter of publish_backfill.main
    ready0,             \* history: content ids ready to publish when the run started
    deliveries0,        \* history: deliveries when the run started
    pubDbFailed,        \* history: a store call of the run raised
    summary_file,       \* publish_summary.txt: written, and the two counts in it
    \* ---- generate_parallel.py beside the analyzer's transactions ----
    gargs,              \* parsed command line: workers, limit, dry_run
    gpc,                \* position of main()
    grun,               \* number of the run of the script, 1..MaxRuns
    gen_exit,           \* exit code of the run, -1 while it runs
    gen_connects,       \* history: connections the run has asked for
    gcontent,           \* content rows: row, executive_summary, blog_html, email_html
    pending_content,    \* the candidate list, a sequence of content ids
    gsubmitted,         \* tasks submitted to the executor so far
    gthreads,           \* worker threads the executor has started
    gtask,              \* per candidate index: pc, res
    gcollected,         \* indices whose future main() has consumed
    gcompleted,         \* the counters of main()
    gsuccessful,
    gfailed,
    selectedBy,         \* history, per run: content ids the candidate query returned
    startedBy,          \* history, per run: content ids process_content was called for
    generatedBy,        \* history, per run: content ids whose blog HTML the run saved
    \* ---- one EdgarFetcher per worker: pipeline/fetchers/edgar.py ----
    wnow,               \* the clock, in ticks
    limiter,            \* per instance: last_request_time
    wpc,                \* per worker: position in _rate_limit
    wwake,              \* per worker: earliest return of the pending time.sleep
    wcalls,             \* per worker: calls of _rate_limit that have returned
    wslept,             \* history, per worker: some call of the worker had to sleep
    wstamp,             \* history, per worker: time of the worker's last stamp, -1 if none
    \* ---- analyze_backfill.py : main ----
    bf_methods,         \* the attributes the analyzer object offers
    bf_limit,           \* args.limit, 0 when not given
    bpc,                \* position of main()
    bf_exit,            \* exit code of the runner's process, -1 while it runs
    bf_cause,           \* history: what raised the exception that ended the run
    bf_fallback,        \* history: the AttributeError handler was entered
    pending_count,      \* what count_pending_filings returned
    bf_filings,         \* length of the list get_pending_filings returned
    bf_idx,             \* index of the loop over the filings
    total_analyzed,     \* the counters of main()
    bf_failed_count,
    analyze_summary,    \* analyze_summary.txt: written, and the two counts in it
    \* ---- pipeline/fetchers/ir_scraper.py : IRPageScraper ----
    ir_now,             \* time.time(), in seconds
    ir_last_request_time, \* self.last_request_time
    ipc,                \* position of the caller in _make_request
    ir_wake,            \* when the current time.sleep may return
    attempt,            \* the loop variable of _make_request
    ir_calls,           \* calls of _make_request that are over
    ir_result,          \* how the last call ended: "response", "IRScraperError"; "none" during a call
    prev_request,       \* history: when the request before the last went out
    last_request,       \* history: when the last requests.get went out
    \* ---- pipeline/publishers/email.py : the send loop of EmailPublisher.publish ----
    send_pc,            \* position of publish_phase / publish
    send_items,         \* number of content items publish_phase publishes
    send_item,          \* the item being published
    audience,           \* len(subscribers)
    outcomes,           \* what _send_via_resend did for the subscribers so far
    delivery_status,    \* per item: status of the email_deliveries row saved, or "none"
    send_failures,      \* history, per item: subscribers whose send failed
    \* ---- pipeline/fetchers/ir_scraper.py : scrape_for_filing and the ir_pages row ----
    page_exists,        \* the company has an ir_pages row
    scraping_enabled,   \* ir_pages.scraping_enabled
    page_status,        \* ir_pages.status
    consecutive_failures, \* ir_pages.consecutive_failures
    error_message,      \* ir_pages.error_message: 0 for NULL, else the call that wrote it
    scrape_calls,       \* calls of scrape_for_filing so far
    scrapes,            \* history: calls of scrape_ir_page so far
    last_call           \* history: what the last call did

orchVars == <<args, opc, analyze_process, generate_process, publish_process,
              generate_triggered, percent, total, analyzed, launches, reached,
              sawBelow, launchPercent, pipe, verdict, orch_exit>>

storeVars == <<filingStatus, contentRows, content_status_default, savesEntered,
               insertAttempts>>

poolVars == <<pargs, mpc, exit_code, store_failed, pending_filings, nsubmitted, threads, task, collected,
              completed, successful, failed>>

peerVars == <<peerPc, peerList, peerFiling, peerRowsSeen>>

rateVars == <<now, last_request_time, rpc, wakeAt, calls, firstStart, prevStamp,
              lastStamp, prevReturn, lastReturn, slept>>

fetchVars == <<listed, frun, fpc, fidx, processed, returned, savedBy, extraRows>>

resetVars == <<resetPc, resetList, resetFiling, resets>>

pubVars == <<pubArgs, ppc, pub_exit, pcontent, deliveries, subscribers, emails_sent,
             ready_content, pubIdx, total_published, published_count, failed_count,
             total_failed, ready0, deliveries0, pubDbFailed, summary_file>>

genVars == <<gargs, gpc, grun, gen_exit, gen_connects, gcontent, pending_content,
             gsubmitted, gthreads, gtask, gcollected, gcompleted, gsuccessful,
             gfailed, selectedBy, startedBy, generatedBy>>

limVars == <<wnow, limiter, wpc, wwake, wcalls, wslept, wstamp>>

bfVars == <<bf_methods, bf_limit, bpc, bf_exit, bf_cause, bf_fallback, pending_count,
            bf_filings, bf_idx, total_analyzed, bf_failed_count, analyze_summary>>

irVars == <<ir_now, ir_last_request_time, ipc, ir_wake, attempt, ir_calls, ir_result,
            prev_request, last_request>>

sendVars == <<send_pc, send_items, send_item, audience, outcomes, delivery_status,
              send_failures>>

pageVars == <<page_exists, scraping_enabled, page_status, consecutive_failures,
              error_message, scrape_calls, scrapes, last_call>>

stageVars == <<pubVars, genVars, limVars, bfVars, irVars, sendVars, pageVars>>

vars == <<orchVars, storeVars, poolVars, peerVars, rateVars, fetchVars, resetVars,
          stageVars>>

Filings == 1..MaxFilings

(***************************************************************************)
(* orchestrate_parallel.py                                                 *)
(***************************************************************************)

\* round(100.0 * analyzed / total, 1), as tenths of a percent.  The quotient
\* 1000*a/t has a fractional part of exactly 1/2 only when 16 divides t, so
\* no tie is reachable while MaxTotal < 16.
RoundTenths(a, t) == (2000 * a + t) \div (2 * t)

\* get_analyze_progress: the percent it returns; 0 when total = 0 and 0 when
\* the query raises.
get_analyze_progress(t, a, queryFails) ==
    IF queryFails THEN 0
    ELSE IF t > 0 THEN RoundTenths(a, t) ELSE 0

\* the trigger threshold of the monitor loop: "if percent >= 10"
Threshold == 100

ShouldTrigger(p) == p >= Threshold

\* mutant: the flag is not set after the launch
TriggeredAfterLaunch_NotSet == FALSE

\* the value main() gives generate_triggered after start_generate_phase
TriggeredAfterLaunch == TRUE

\* the exit code of a process whose main() returns
ExitReturn == 0

\* sys.exit(1); an uncaught exception ends the interpreter with the same code
ExitFatal == 1

\* the stage processes the orchestrator starts
Stages == {"analyze", "generate", "publish"}

\* mutant: wait_for_process returns without waiting for the child
wait_for_process_returns_AtOnce(p, buffered) == TRUE

\* wait_for_process(process, name) returns once readline has met the end of
\* the child's output, which is when the child has exited and the pipe is
\* empty, and process.wait() has returned; for process = None it returns at
\* once, from its exception handler.
wait_for_process_returns(p, buffered) == p = "none" \/ (p # "running" /\ buffered = 0)

\* what wait_for_process prints for the process it waited for
WaitVerdict(p) ==
    IF p = "none" THEN "error" ELSE IF p = "exit0" THEN "success" ELSE "failed"

\* what every step of the orchestrator leaves alone
OrchFrame ==
    UNCHANGED <<storeVars, poolVars, peerVars, rateVars, fetchVars, resetVars, stageVars>>

OrchIdle ==
    /\ args = [analyze_only |-> FALSE, generate_only |-> FALSE, publish |-> FALSE]
    /\ opc = "off"
    /\ analyze_process = "none"
    /\ generate_process = "none"
    /\ publish_process = "none"
    /\ generate_triggered = FALSE
    /\ percent = 0
    /\ total = 0
    /\ analyzed = 0
    /\ launches = 0
    /\ reached = FALSE
    /\ sawBelow = FALSE
    /\ launchPercent = -1
    /\ pipe = [c \in Stages |-> 0]
    /\ verdict = [c \in Stages |-> "none"]
    /\ orch_exit = -1

OrchInit ==
    /\ args \in [analyze_only : BOOLEAN, generate_only : BOOLEAN, publish : BOOLEAN]
    /\ opc = "start"
    /\ analyze_process = "none"
    /\ generate_process = "none"
    /\ publish_process = "none"
    /\ generate_triggered = FALSE
    /\ percent = 0
    /\ total \in 0..MaxTotal
    /\ analyzed \in 0..total
    /\ launches = 0
    /\ reached = FALSE
    /\ sawBelow = FALSE
    /\ launchPercent = -1
    /\ pipe = [c \in Stages |-> 0]
    /\ verdict = [c \in Stages |-> "none"]
    /\ orch_exit = -1

\* main(), lines 211-226: --generate-only starts generate and waits for it;
\* otherwise start_analyze_phase, whose Popen failure is sys.exit(1).
OrchStart ==
    /\ OrchFrame
    /\ opc = "start"
    /\ \/ /\ args.generate_only
          /\ \E p \in {"running", "none"} : generate_process' = p
          /\ opc' = "wait_generate_only"
          /\ UNCHANGED <<analyze_process, orch_exit>>
       \/ /\ ~args.generate_only
          /\ \/ /\ analyze_process' = "running"
                /\ opc' = "connect"
                /\ UNCHANGED orch_exit
             \/ /\ opc' = "exit1"
                /\ orch_exit' = ExitFatal
                /\ UNCHANGED analyze_process
          /\ UNCHANGED generate_process
    /\ UNCHANGED <<args, publish_process, generate_triggered, percent, total,
                   analyzed, launches, reached, sawBelow, launchPercent, pipe,
                   verdict>>

\* main(), lines 212-216: wait_for_process(process, "Generate Phase"), then
\* return without a final status.
OrchWaitGenerateOnly ==
    /\ OrchFrame
    /\ opc = "wait_generate_only"
    /\ wait_for_process_returns(generate_process, pipe["generate"])
    /\ verdict' = [verdict EXCEPT !["generate"] = WaitVerdict(generate_process)]
    /\ opc' = "returned"
    /\ orch_exit' = ExitReturn
    /\ UNCHANGED <<args, analyze_process, generate_process, publish_process,
                   generate_triggered, percent, total, analyzed, launches,
                   reached, sawBelow, launchPercent, pipe>>

\* main(), lines 229-234: connect for monitoring; on failure terminate the
\* analyze process and exit 1.
OrchConnect ==
    /\ OrchFrame
    /\ opc = "connect"
    /\ \/ /\ opc' = "loop"
          /\ UNCHANGED <<analyze_process, orch_exit>>
       \/ /\ opc' = "exit1"
          /\ orch_exit' = ExitFatal
          /\ analyze_process' = IF analyze_process = "running" THEN "exit1"
                                ELSE analyze_process
    /\ UNCHANGED <<args, generate_process, publish_process, generate_triggered,
                   percent, total, analyzed, launches, reached, sawBelow,
                   launchPercent, pipe, verdict>>

\* the streams the monitor loop reads in one iteration: lines 250-255 select
\* and read analyze_process.stdout only
LoopReads == {"analyze"}

\* one readline per stream and iteration
LinesPerIteration == 1

\* mutant: the trigger check does not look at --analyze-only
TriggerChecked_IgnoresMode(triggered, a) == ~triggered

\* main(), line 260: "if not generate_triggered and not args.analyze_only"
TriggerChecked(triggered, a) == ~triggered /\ ~a.analyze_only

\* main(), lines 243-260: the loop test, the non-blocking read of one line of
\* the analyze process's output, and the guard of the trigger check.
OrchLoopTest ==
    /\ OrchFrame
    /\ opc = "loop"
    /\ IF analyze_process = "running"
       THEN /\ opc' = IF TriggerChecked(generate_triggered, args) THEN "poll" ELSE "status"
            /\ pipe' = [c \in Stages |->
                          IF c \in LoopReads /\ pipe[c] >= LinesPerIteration
                          THEN pipe[c] - LinesPerIteration ELSE pipe[c]]
       ELSE /\ opc' = "drain"
            /\ UNCHANGED pipe
    /\ UNCHANGED <<args, analyze_process, generate_process, publish_process,
                   generate_triggered, percent, total, analyzed, launches,
                   reached, sawBelow, launchPercent, verdict, orch_exit>>

\* main(), line 261: total, analyzed, pending, percent = get_analyze_progress(db_conn)
OrchPoll ==
    /\ OrchFrame
    /\ opc = "poll"
    /\ \E queryFails \in BOOLEAN :
          percent' = get_analyze_progress(total, analyzed, queryFails)
    /\ reached' = (reached \/ percent' >= Threshold)
    /\ sawBelow' = (sawBelow \/ (0 < percent' /\ percent' < Threshold))
    /\ opc' = "decide"
    /\ UNCHANGED <<args, analyze_process, generate_process, publish_process,
                   generate_triggered, total, analyzed, launches, launchPercent,
                   pipe, verdict, orch_exit>>

\* main(), lines 263-266: launch generate and set the flag.  Popen may fail,
\* in which case start_generate_phase returns None.
OrchDecide ==
    /\ OrchFrame
    /\ opc = "decide"
    /\ IF ShouldTrigger(percent)
       THEN /\ \E p \in {"running", "none"} : generate_process' = p
            /\ generate_triggered' = TriggeredAfterLaunch
            /\ launches' = launches + 1
            /\ launchPercent' = percent
       ELSE UNCHANGED <<generate_process, generate_triggered, launches, launchPercent>>
    /\ opc' = "status"
    /\ UNCHANGED <<args, analyze_process, publish_process, percent, total,
                   analyzed, reached, sawBelow, pipe, verdict, orch_exit>>

\* main(), lines 268-281: the periodic status print (queries, prints, changes
\* nothing) and the sleep before the next iteration.
OrchStatusSleep ==
    /\ OrchFrame
    /\ opc = "status"
    /\ opc' = "loop"
    /\ UNCHANGED <<args, analyze_process, generate_process, publish_process,
                   generate_triggered, percent, total, analyzed, launches,
                   reached, sawBelow, launchPercent, pipe, verdict, orch_exit>>

\* main(), lines 283-293: read analyze's output to its end, then decide
\* whether there is a generate process to wait for.
OrchDrain ==
    /\ OrchFrame
    /\ opc = "drain"
    /\ pipe' = [pipe EXCEPT !["analyze"] = 0]
    /\ opc' = IF generate_triggered /\ generate_process # "none"
              THEN "wait_generate" ELSE "final"
    /\ UNCHANGED <<args, analyze_process, generate_process, publish_process,
                   generate_triggered, percent, total, analyzed, launches,
                   reached, sawBelow, launchPercent, verdict, orch_exit>>

\* wait_for_process, lines 153-157: readline takes one line of the output of
\* the process main() is waiting for
OrchWaitRead ==
    /\ OrchFrame
    /\ \E c \in {"generate", "publish"} :
          /\ opc = (IF c = "generate" THEN "wait_generate" ELSE "wait_publish")
             \/ (c = "generate" /\ opc = "wait_generate_only")
          /\ pipe[c] > 0
          /\ pipe' = [pipe EXCEPT ![c] = @ - 1]
    /\ UNCHANGED <<args, opc, analyze_process, generate_process, publish_process,
                   generate_triggered, percent, total, analyzed, launches,
                   reached, sawBelow, launchPercent, verdict, orch_exit>>

\* main(), lines 295-300: wait_for_process(generate_process), then publish
\* if requested.
OrchWaitGenerate ==
    /\ OrchFrame
    /\ opc = "wait_generate"
    /\ wait_for_process_returns(generate_process, pipe["generate"])
    /\ verdict' = [verdict EXCEPT !["generate"] = WaitVerdict(generate_process)]
    /\ IF args.publish
       THEN /\ \E p \in {"running", "none"} : publish_process' = p
            /\ opc' = "wait_publish"
       ELSE /\ opc' = "final"
            /\ UNCHANGED publish_process
    /\ UNCHANGED <<args, analyze_process, generate_process, generate_triggered,
                   percent, total, analyzed, launches, reached, sawBelow,
                   launchPercent, pipe, orch_exit>>

\* main(), lines 301-302: wait_for_process(publish_process, "Publish Phase")
OrchWaitPublish ==
    /\ OrchFrame
    /\ opc = "wait_publish"
    /\ wait_for_process_returns(publish_process, pipe["publish"])
    /\ verdict' = [verdict EXCEPT !["publish"] = WaitVerdict(publish_process)]
    /\ opc' = "final"
    /\ UNCHANGED <<args, analyze_process, generate_process, publish_process,
                   generate_triggered, percent, total, analyzed, launches,
                   reached, sawBelow, launchPercent, pipe, orch_exit>>

\* main(), lines 304-316: the final status, and the return of main()
OrchFinal ==
    /\ OrchFrame
    /\ opc = "final"
    /\ opc' = "done"
    /\ orch_exit' = ExitReturn
    /\ UNCHANGED <<args, analyze_process, generate_process, publish_process,
                   generate_triggered, percent, total, analyzed, launches,
                   reached, sawBelow, launchPercent, pipe, verdict>>

ProcessOf(c) ==
    IF c = "analyze" THEN analyze_process
    ELSE IF c = "generate" THEN generate_process ELSE publish_process

\* A running child prints a line; its stdout is the pipe of Popen
\* (stdout=subprocess.PIPE), which holds PipeCap lines, and a write to a full
\* pipe blocks.
ChildWrite ==
    /\ OrchFrame
    /\ \E c \in Stages :
          /\ ProcessOf(c) = "running"
          /\ pipe[c] < PipeCap
          /\ pipe' = [pipe EXCEPT ![c] = @ + 1]
    /\ UNCHANGED <<args, opc, analyze_process, generate_process, publish_process,
                   generate_triggered, percent, total, analyzed, launches,
                   reached, sawBelow, launchPercent, verdict, orch_exit>>

\* A child process exits with code 0 or 1.
ChildExit ==
    /\ OrchFrame
    /\ \E code \in {"exit0", "exit1"} :
          \/ /\ analyze_process = "running"
             /\ analyze_process' = code
             /\ UNCHANGED <<generate_process, publish_process>>
          \/ /\ generate_process = "running"
             /\ generate_process' = code
             /\ UNCHANGED <<analyze_process, publish_process>>
          \/ /\ publish_process = "running"
             /\ publish_process' = code
             /\ UNCHANGED <<analyze_process, generate_process>>
    /\ UNCHANGED <<args, opc, generate_triggered, percent, total, analyzed,
                   launches, reached, sawBelow, launchPercent, pipe, verdict,
                   orch_exit>>

\* A worker of the running analyze process commits a content record
\* (ClaudeAnalyzer.save_to_database), which the progress query then counts.
StoreAnalyzeCommit ==
    /\ OrchFrame
    /\ analyze_process = "running"
    /\ analyzed < total
    /\ analyzed' = analyzed + 1
    /\ UNCHANGED <<args, opc, analyze_process, generate_process, publish_process,
                   generate_triggered, percent, total, launches, reached,
                   sawBelow, launchPercent, pipe, verdict, orch_exit>>

\* The fetch stage inserts a filing (EdgarFetcher.save_to_database).
StoreFetchInsert ==
    /\ OrchFrame
    /\ total < MaxTotal
    /\ total' = total + 1
    /\ UNCHANGED <<args, opc, analyze_process, generate_process, publish_process,
                   generate_triggered, percent, analyzed, launches, reached,
                   sawBelow, launchPercent, pipe, verdict, orch_exit>>

\* A maintenance script deletes the content of a filing (delete_existing_content).
StoreResetDelete ==
    /\ OrchFrame
    /\ analyzed > 0
    /\ analyzed' = analyzed - 1
    /\ UNCHANGED <<args, opc, analyze_process, generate_process, publish_process,
                   generate_triggered, percent, total, launches, reached,
                   sawBelow, launchPercent, pipe, verdict, orch_exit>>

OrchNext ==
    \/ OrchStart
    \/ OrchWaitGenerateOnly
    \/ OrchConnect
    \/ OrchLoopTest
    \/ OrchPoll
    \/ OrchDecide
    \/ OrchStatusSleep
    \/ OrchDrain
    \/ OrchWaitRead
    \/ OrchWaitGenerate
    \/ OrchWaitPublish
    \/ OrchFinal
    \/ ChildWrite
    \/ ChildExit
    \/ StoreAnalyzeCommit
    \/ StoreFetchInsert
    \/ StoreResetDelete

(***************************************************************************)
(* The shared store: filings and content                                   *)
(***************************************************************************)

FilingStatuses == {"absent", "pending", "fetched", "analyzed"}

\* content.status values named by the code (BaseAnalyzer.save_to_database
\* docstring); no statement of the pipeline writes the column, so a row has
\* the value the schema gives it.
ContentStatuses == {"draft", "published"}

StoreIdle ==
    /\ filingStatus = [f \in Filings |-> "absent"]
    /\ contentRows = [f \in Filings |-> 0]
    /\ content_status_default = "draft"
    /\ savesEntered = [f \in Filings |-> 0]
    /\ insertAttempts = [f \in Filings |-> 0]

\* BaseAnalyzer.check_if_analyzed:
\*   SELECT 1 FROM content WHERE filing_id = %s AND status = 'published'
check_if_analyzed(f) ==
    contentRows[f] > 0 /\ content_status_default = "published"

\* The WHERE clause of get_pending_filings / analyze_phase:
\*   f.status = 'pending' AND NOT EXISTS (SELECT 1 FROM content WHERE filing_id = f.id)
IsPending(f) == filingStatus[f] = "pending" /\ contentRows[f] = 0

\* mutant: the insert is skipped when a content row already exists
SaveInserts_IfAbsent(rows) == rows = 0

\* ClaudeAnalyzer.save_to_database executes INSERT INTO content without any
\* condition on the rows that already exist for the filing.
SaveInserts(rows) == TRUE

\* mutant: the analyzer writes the fetch stage's status
AnalyzedStatus_Pending == "pending"

\* ClaudeAnalyzer.save_to_database: UPDATE filings SET status = 'analyzed'
AnalyzedStatus == "analyzed"

\* mutant: the INSERT is committed without the UPDATE of the filing
SaveCommit_InsertOnly(f) ==
    /\ contentRows' = [contentRows EXCEPT ![f] = @ + 1]
    /\ filingStatus' = filingStatus

\* The committed effect of ClaudeAnalyzer.save_to_database for filing f:
\* one more content row and the filing marked analyzed, in one transaction.
SaveCommit(f) ==
    /\ contentRows' = [contentRows EXCEPT ![f] = @ + 1]
    /\ filingStatus' = [filingStatus EXCEPT ![f] = AnalyzedStatus]

(***************************************************************************)
(* analyze_parallel.py                                                     *)
(***************************************************************************)

TaskPcs == {"new", "queued", "check", "analyze", "save", "finished"}

\* a task is being processed from the moment a worker thread calls
\* analyze_filing for it until analyze_filing returns
Running == {"check", "analyze", "save"}

\* conn is the connection analyze_filing opens for the unit: "none" before
\* psycopg2.connect returns, "open" after it, "closed" after conn.close()
NewTask ==
    [pc |-> "new", excAt |-> "-", pf |-> "-", res |-> "-", rowsSeen |-> -1,
     conn |-> "none"]

PoolIdle ==
    /\ pargs = [workers |-> 1, limit |-> 1, dry_run |-> FALSE]
    /\ mpc = "off"
    /\ exit_code = -1
    /\ store_failed = FALSE
    /\ pending_filings = <<>>
    /\ nsubmitted = 0
    /\ threads = 0
    /\ task = [i \in Filings |-> NewTask]
    /\ collected = {}
    /\ completed = 0
    /\ successful = 0
    /\ failed = 0

PeerIdle ==
    /\ peerPc = "off"
    /\ peerList = {}
    /\ peerFiling = 0
    /\ peerRowsSeen = -1

\* what every step of the runner's main thread or workers leaves alone
PoolFrame ==
    UNCHANGED <<orchVars, peerVars, rateVars, fetchVars, resetVars, stageVars>>

\* the pending filings of the store ordered by filing_date DESC (a higher id
\* is a more recent filing), among the ids 1..n
RECURSIVE PendingRecentFirst(_)
PendingRecentFirst(n) ==
    IF n = 0 THEN <<>>
    ELSE IF IsPending(n) THEN <<n>> \o PendingRecentFirst(n - 1)
    ELSE PendingRecentFirst(n - 1)

Take(seq, n) == SubSeq(seq, 1, IF n < Len(seq) THEN n ELSE Len(seq))

\* get_pending_filings(conn, limit)
get_pending_filings(limit) == Take(PendingRecentFirst(MaxFilings), limit)

\* mutant: one worker thread per candidate
PoolSize_PerCandidate(workers, n) == n

\* ThreadPoolExecutor(max_workers=args.workers)
PoolSize(workers, n) == workers

N == Len(pending_filings)

ActiveTasks == {i \in 1..N : task[i].pc \in Running}

QueuedTasks == {i \in 1..N : task[i].pc = "queued"}

\* mutant: process_filing swallows the exception and returns None
ProcessFilingHandler_Swallow == "return_none"

\* BaseAnalyzer.process_filing, "except Exception as e: ... raise"
ProcessFilingHandler == "reraise"

\* analyze_filing, "except Exception as e: return (filing_id, False, ...)"
AnalyzeFilingHandler == "return_failure"

\* analyze_filing, lines 51-54: the tuple returned for a content_id
\*   "ok"        (filing_id, True,  "✓ ...")
\*   "nocontent" (filing_id, False, "⊘ ... (no content_id)")
analyze_filing_return(pf) == IF pf = "content_id" THEN "ok" ELSE "nocontent"

\* what an exception reaching analyze_filing's handler becomes:
\*   "error"  (filing_id, False, "✗ ...")
\*   "raised" the exception is stored in the future
OnExceptionInAnalyzeFiling ==
    IF AnalyzeFilingHandler = "return_failure" THEN "error" ELSE "raised"

\* analyze_filing, lines 49-54: close the connection and return the tuple
\* for what process_filing returned
TaskReturn(t, pf) ==
    [t EXCEPT !.pc = "finished", !.pf = pf, !.res = analyze_filing_return(pf),
              !.conn = "closed"]

\* The task t after an exception at step `at`.  An exception in connect or in
\* check_if_analyzed is outside process_filing's try block; one in
\* analyze_filing or save_to_database passes through its handler first.
\* The handler of analyze_filing (lines 56-57) returns the failure tuple;
\* conn.close() (line 49) is not reached and conn stays as it was.
TaskAfterException(t, at) ==
    IF at \in {"analyze", "save"} /\ ProcessFilingHandler # "reraise"
    THEN [TaskReturn(t, "None") EXCEPT !.excAt = at]
    ELSE [t EXCEPT !.pc = "finished", !.excAt = at,
                   !.pf = IF at = "connect" THEN "-" ELSE "raised",
                   !.res = OnExceptionInAnalyzeFiling]

\* the --workers bounds of the two parallel runners:
\*   analyze_parallel.py  "if args.workers < 1 or args.workers > 10"
\*   generate_parallel.py "if args.workers < 1 or args.workers > 15"
min_workers == 1

max_workers_analyze == 10

max_workers_generate == 15

\* mutant: any worker count is accepted
workers_in_bounds_Any(w, hi) == TRUE

workers_in_bounds(w, hi) == ~(w < min_workers \/ w > hi)

\* the --workers values of the model: below the bounds, the smallest ones, the
\* largest accepted one and the first rejected one
WorkerArgs(hi) == (0..MaxWorkers) \cup {hi, hi + 1}

\* main(), lines 106-109: validate the worker count before anything else
PoolValidate ==
    /\ PoolFrame
    /\ mpc = "validate"
    /\ IF workers_in_bounds(pargs.workers, max_workers_analyze)
       THEN /\ mpc' = "query"
            /\ UNCHANGED exit_code
       ELSE /\ mpc' = "exit1"
            /\ exit_code' = ExitFatal
    /\ UNCHANGED <<storeVars, pargs, store_failed, pending_filings, nsubmitted,
                   threads, task, collected, completed, successful, failed>>

\* main(), lines 126-147: connect, fetch the candidates; a failure is exit 1,
\* an empty list returns, and so does --dry-run after listing the candidates.
PoolQuery ==
    /\ PoolFrame
    /\ mpc = "query"
    /\ \/ /\ pending_filings' = get_pending_filings(pargs.limit)
          /\ IF pending_filings' = <<>> \/ pargs.dry_run
             THEN /\ mpc' = "returned"
                  /\ exit_code' = ExitReturn
             ELSE /\ mpc' = "submit"
                  /\ UNCHANGED exit_code
          /\ UNCHANGED store_failed
       \/ /\ mpc' = "exit1"
          /\ exit_code' = ExitFatal
          /\ store_failed' = TRUE
          /\ UNCHANGED pending_filings
    /\ UNCHANGED <<storeVars, pargs, nsubmitted, threads, task, collected,
                   completed, successful, failed>>

\* main(), lines 156-166: executor.submit of the next candidate.  The
\* executor starts a new thread when none is idle and fewer than max_workers
\* exist.
PoolSubmit ==
    /\ PoolFrame
    /\ mpc = "submit"
    /\ nsubmitted < N
    /\ LET i == nsubmitted + 1
           idle == threads - Cardinality(ActiveTasks) - Cardinality(QueuedTasks)
       IN /\ task' = [task EXCEPT ![i].pc = "queued"]
          /\ threads' = IF idle <= 0 /\ threads < PoolSize(pargs.workers, N)
                        THEN threads + 1 ELSE threads
          /\ nsubmitted' = i
    /\ UNCHANGED <<storeVars, pargs, exit_code, store_failed, mpc,
                   pending_filings, collected, completed,
                   successful, failed>>

\* main(), line 170: all candidates are submitted, start consuming futures
PoolStartCollect ==
    /\ PoolFrame
    /\ mpc = "submit"
    /\ nsubmitted = N
    /\ mpc' = "collect"
    /\ UNCHANGED <<storeVars, pargs, exit_code, store_failed, pending_filings, nsubmitted, threads, task,
                   collected, completed, successful, failed>>

\* a free worker thread takes the oldest queued task and calls
\* analyze_filing, which opens its own connection (lines 40-41)
TaskStart(i) ==
    /\ PoolFrame
    /\ task[i].pc = "queued"
    /\ \A j \in QueuedTasks : i <= j
    /\ Cardinality(ActiveTasks) < threads
    /\ \/ task' = [task EXCEPT ![i].pc = "check", ![i].conn = "open"]
       \/ task' = [task EXCEPT ![i] = TaskAfterException(@, "connect")]
    /\ UNCHANGED <<storeVars, pargs, exit_code, store_failed, mpc,
                   pending_filings, nsubmitted, threads,
                   collected, completed, successful, failed>>

\* process_filing, lines 229-234: skip when check_if_analyzed finds the
\* filing done; the query itself may raise.
TaskCheck(i) ==
    /\ PoolFrame
    /\ task[i].pc = "check"
    /\ LET f == pending_filings[i]
       IN \/ task' = [task EXCEPT ![i] =
                        IF check_if_analyzed(f)
                        THEN [TaskReturn(@, "None") EXCEPT !.rowsSeen = contentRows[f]]
                        ELSE [@ EXCEPT !.pc = "analyze",
                                       !.rowsSeen = contentRows[f]]]
          \/ task' = [task EXCEPT ![i] = TaskAfterException(@, "check")]
    /\ UNCHANGED <<storeVars, pargs, exit_code, store_failed, mpc,
                   pending_filings, nsubmitted, threads,
                   collected, completed, successful, failed>>

\* process_filing, line 238: self.analyze_filing(filing_id, analysis_type)
TaskAnalyze(i) ==
    /\ PoolFrame
    /\ task[i].pc = "analyze"
    /\ LET f == pending_filings[i]
       IN \/ /\ task' = [task EXCEPT ![i].pc = "save"]
             /\ savesEntered' = [savesEntered EXCEPT ![f] = @ + 1]
          \/ /\ task' = [task EXCEPT ![i] = TaskAfterException(@, "analyze")]
             /\ UNCHANGED savesEntered
    /\ UNCHANGED <<filingStatus, contentRows, content_status_default,
                   insertAttempts, pargs, exit_code, store_failed, mpc, pending_filings, nsubmitted,
                   threads, collected, completed, successful, failed>>

\* process_filing, line 241: self.save_to_database(result).  The insert and
\* the status update commit together, or the transaction is rolled back and
\* DatabaseError raised.  Then analyze_filing closes and returns.
TaskSave(i) ==
    /\ PoolFrame
    /\ task[i].pc = "save"
    /\ LET f == pending_filings[i]
       IN IF SaveInserts(contentRows[f])
          THEN /\ insertAttempts' = [insertAttempts EXCEPT ![f] = @ + 1]
               /\ \/ /\ SaveCommit(f)
                     /\ task' = [task EXCEPT ![i] = TaskReturn(@, "content_id")]
                  \/ /\ task' = [task EXCEPT ![i] = TaskAfterException(@, "save")]
                     /\ UNCHANGED <<filingStatus, contentRows>>
          ELSE /\ task' = [task EXCEPT ![i] = TaskReturn(@, "content_id")]
               /\ UNCHANGED <<filingStatus, contentRows, insertAttempts>>
    /\ UNCHANGED <<content_status_default, savesEntered, pargs, exit_code, store_failed, mpc,
                   pending_filings, nsubmitted, threads, collected, completed,
                   successful, failed>>

\* mutant: a unit without content_id is counted in neither total
Tally_DropsNoContent(res) ==
    IF res = "ok" THEN <<1, 0>> ELSE IF res = "nocontent" THEN <<0, 0>> ELSE <<0, 1>>

\* mutant: a success consumed after a failure is counted as a failure
Tally_AfterFailure(res) == IF res = "ok" /\ failed = 0 THEN <<1, 0>> ELSE <<0, 1>>

\* main(), lines 177-180: the increments of (successful, failed) for a tuple
Tally(res) == IF res = "ok" THEN <<1, 0>> ELSE <<0, 1>>

\* main(), lines 170-180: one iteration of "for future in as_completed(futures)".
\* future.result() re-raises an exception stored in the future.
PoolCollect(i) ==
    /\ PoolFrame
    /\ mpc = "collect"
    /\ i \in 1..N
    /\ i \notin collected
    /\ task[i].pc = "finished"
    /\ collected' = collected \cup {i}
    /\ completed' = completed + 1
    /\ IF task[i].res = "raised"
       THEN /\ mpc' = "crashed"
            /\ exit_code' = ExitFatal
            /\ UNCHANGED <<successful, failed>>
       ELSE /\ successful' = successful + Tally(task[i].res)[1]
            /\ failed' = failed + Tally(task[i].res)[2]
            /\ UNCHANGED <<mpc, exit_code>>
    /\ UNCHANGED <<storeVars, pargs, store_failed, pending_filings, nsubmitted,
                   threads, task>>

\* mutant: a run with failed units ends with sys.exit(1)
SummaryExit_FailsOnFailed(nfailed) == IF nfailed > 0 THEN ExitFatal ELSE ExitReturn

\* main(), lines 196-197: "if failed > 0: print(...)", then main returns
SummaryExit(nfailed) == ExitReturn

\* main(), lines 182-197: every future is consumed, the pool is shut down,
\* the summary is printed and main returns.
PoolSummary ==
    /\ PoolFrame
    /\ mpc = "collect"
    /\ collected = 1..N
    /\ mpc' = "summary"
    /\ exit_code' = SummaryExit(failed)
    /\ UNCHANGED <<storeVars, pargs, store_failed, pending_filings, nsubmitted, threads, task,
                   collected, completed, successful, failed>>

(***************************************************************************)
(* pipeline/main.py analyze_phase: a second analyzer on the same store     *)
(***************************************************************************)

PeerFrame ==
    UNCHANGED <<orchVars, poolVars, rateVars, fetchVars, resetVars, stageVars>>

\* analyze_phase, lines 196-212: the same candidate query
PeerQuery ==
    /\ PeerFrame
    /\ peerPc = "query"
    /\ peerList' = {f \in Filings : IsPending(f)}
    /\ peerPc' = "next"
    /\ UNCHANGED <<storeVars, peerFiling, peerRowsSeen>>

\* analyze_phase, lines 221-229: the next filing of the list, most recent
\* first, and process_filing's skip check for it (skip_existing=True); an
\* exception of the check is caught by the loop, which continues
PeerCheck ==
    /\ PeerFrame
    /\ peerPc = "next"
    /\ peerList # {}
    /\ LET f == CHOOSE g \in peerList : \A h \in peerList : h <= g
       IN /\ peerFiling' = f
          /\ peerList' = peerList \ {f}
          /\ \/ /\ peerPc' = IF check_if_analyzed(f) THEN "next" ELSE "analyze"
                /\ peerRowsSeen' = contentRows[f]
             \/ /\ peerPc' = "next"
                /\ peerRowsSeen' = -1
    /\ UNCHANGED storeVars

\* process_filing, line 238; analyze_phase catches the exception and continues
PeerAnalyze ==
    /\ PeerFrame
    /\ peerPc = "analyze"
    /\ \/ /\ peerPc' = "save"
          /\ savesEntered' = [savesEntered EXCEPT ![peerFiling] = @ + 1]
       \/ /\ peerPc' = "next"
          /\ UNCHANGED savesEntered
    /\ UNCHANGED <<filingStatus, contentRows, content_status_default,
                   insertAttempts, peerList, peerFiling, peerRowsSeen>>

\* process_filing, line 241
PeerSave ==
    /\ PeerFrame
    /\ peerPc = "save"
    /\ IF SaveInserts(contentRows[peerFiling])
       THEN /\ insertAttempts' = [insertAttempts EXCEPT ![peerFiling] = @ + 1]
            /\ \/ SaveCommit(peerFiling)
               \/ UNCHANGED <<filingStatus, contentRows>>
       ELSE UNCHANGED <<filingStatus, contentRows, insertAttempts>>
    /\ peerPc' = "next"
    /\ UNCHANGED <<content_status_default, savesEntered, peerList, peerFiling,
                   peerRowsSeen>>

\* The store after the fetch stage: the first n filing ids have a pending
\* row and no content.
AnalyzeInit ==
    /\ OrchIdle
    /\ \E n \in 0..MaxFilings :
          filingStatus = [f \in Filings |-> IF f <= n THEN "pending" ELSE "absent"]
    /\ contentRows = [f \in Filings |-> 0]
    /\ content_status_default \in ContentStatuses
    /\ savesEntered = [f \in Filings |-> 0]
    /\ insertAttempts = [f \in Filings |-> 0]
    /\ pargs \in [workers : WorkerArgs(max_workers_analyze), limit : 1..MaxFilings,
                  dry_run : BOOLEAN]
    /\ mpc = "validate"
    /\ exit_code = -1
    /\ store_failed = FALSE
    /\ pending_filings = <<>>
    /\ nsubmitted = 0
    /\ threads = 0
    /\ task = [i \in Filings |-> NewTask]
    /\ collected = {}
    /\ completed = 0
    /\ successful = 0
    /\ failed = 0
    /\ peerPc = "query"
    /\ peerList = {}
    /\ peerFiling = 0
    /\ peerRowsSeen = -1

AnalyzeNext ==
    \/ PoolValidate
    \/ PoolQuery
    \/ PoolSubmit
    \/ PoolStartCollect
    \/ \E i \in Filings : TaskStart(i)
    \/ \E i \in Filings : TaskCheck(i)
    \/ \E i \in Filings : TaskAnalyze(i)
    \/ \E i \in Filings : TaskSave(i)
    \/ \E i \in Filings : PoolCollect(i)
    \/ PoolSummary
    \/ PeerQuery
    \/ PeerCheck
    \/ PeerAnalyze
    \/ PeerSave

(***************************************************************************)
(* pipeline/fetchers/edgar.py: the rate limiter                            *)
(***************************************************************************)

\* self.min_request_interval = 1.0 / config.sec.rate_limit_requests, in ticks
min_request_interval == IntervalTicks

\* the clock stops here so that the state space is finite
MaxTime == IntervalTicks * (MaxCalls + 1)

\* time.time() at construction is far from the initial last_request_time of 0
StartTime == IntervalTicks

RateFrame ==
    UNCHANGED <<orchVars, storeVars, poolVars, peerVars, fetchVars, resetVars, stageVars>>

RateIdle ==
    /\ now = 0
    /\ last_request_time = 0
    /\ rpc = "off"
    /\ wakeAt = 0
    /\ calls = 0
    /\ firstStart = -1
    /\ prevStamp = -1
    /\ lastStamp = -1
    /\ prevReturn = -1
    /\ lastReturn = -1
    /\ slept = FALSE

\* EdgarFetcher.__init__, lines 54-56
RateInit ==
    /\ now = StartTime
    /\ last_request_time = 0
    /\ rpc = "idle"
    /\ wakeAt = 0
    /\ calls = 0
    /\ firstStart = -1
    /\ prevStamp = -1
    /\ lastStamp = -1
    /\ prevReturn = -1
    /\ lastReturn = -1
    /\ slept = FALSE

\* mutant: the limiter sleeps for the time already elapsed
sleep_time_Elapsed(elapsed) == elapsed

\* _rate_limit, line 68: sleep_time = self.min_request_interval - elapsed
sleep_time(elapsed) == min_request_interval - elapsed

\* time passes
Tick ==
    /\ RateFrame
    /\ now < MaxTime
    /\ now' = now + 1
    /\ UNCHANGED <<last_request_time, rpc, wakeAt, calls, firstStart, prevStamp,
                   lastStamp, prevReturn, lastReturn, slept>>

\* _make_request, line 85: the single caller thread enters _rate_limit
RateCall ==
    /\ RateFrame
    /\ rpc = "idle"
    /\ calls < MaxCalls
    /\ rpc' = "read"
    /\ firstStart' = IF firstStart = -1 THEN now ELSE firstStart
    /\ UNCHANGED <<now, last_request_time, wakeAt, calls, prevStamp, lastStamp,
                   prevReturn, lastReturn, slept>>

\* _rate_limit, lines 66-69: read the clock, decide to sleep; time.sleep
\* returns no earlier than sleep_time after this reading
RateRead ==
    /\ RateFrame
    /\ rpc = "read"
    /\ LET elapsed == now - last_request_time
       IN IF elapsed < min_request_interval
          THEN /\ wakeAt' = now + sleep_time(elapsed)
               /\ rpc' = "sleep"
               /\ slept' = TRUE
          ELSE /\ rpc' = "stamp"
               /\ UNCHANGED <<wakeAt, slept>>
    /\ UNCHANGED <<now, last_request_time, calls, firstStart, prevStamp,
                   lastStamp, prevReturn, lastReturn>>

\* _rate_limit, line 69: time.sleep(sleep_time) returns
RateWake ==
    /\ RateFrame
    /\ rpc = "sleep"
    /\ now >= wakeAt
    /\ rpc' = "stamp"
    /\ UNCHANGED <<now, last_request_time, wakeAt, calls, firstStart, prevStamp,
                   lastStamp, prevReturn, lastReturn, slept>>

\* _rate_limit, line 70: self.last_request_time = time.time()
RateStamp ==
    /\ RateFrame
    /\ rpc = "stamp"
    /\ last_request_time' = now
    /\ prevStamp' = lastStamp
    /\ lastStamp' = now
    /\ rpc' = "return"
    /\ UNCHANGED <<now, wakeAt, calls, firstStart, prevReturn, lastReturn, slept>>

\* _rate_limit returns to _make_request
RateReturn ==
    /\ RateFrame
    /\ rpc = "return"
    /\ rpc' = "idle"
    /\ calls' = calls + 1
    /\ prevReturn' = lastReturn
    /\ lastReturn' = now
    /\ UNCHANGED <<now, last_request_time, wakeAt, firstStart, prevStamp,
                   lastStamp, slept>>

RateNext ==
    \/ Tick
    \/ RateCall
    \/ RateRead
    \/ RateWake
    \/ RateStamp
    \/ RateReturn

(***************************************************************************)
(* pipeline/fetchers/base.py: process_company, run twice                   *)
(***************************************************************************)

FetchFrame ==
    UNCHANGED <<orchVars, poolVars, peerVars, rateVars, resetVars, stageVars>>

FetchIdle ==
    /\ listed = <<>>
    /\ frun = 0
    /\ fpc = "off"
    /\ fidx = 0
    /\ processed = 0
    /\ returned = [r \in 1..2 |-> -1]
    /\ savedBy = [r \in 1..2 |-> {}]
    /\ extraRows = [f \in Filings |-> 0]

ResetIdle ==
    /\ resetPc = "off"
    /\ resetList = {}
    /\ resetFiling = 0
    /\ resets = {}

\* mutant: the existence check never finds the filing
check_if_exists_Never(a) == FALSE

\* BaseFetcher.check_if_exists: SELECT 1 FROM filings WHERE accession_number = %s
check_if_exists(a) == filingStatus[a] # "absent"

\* the argument process_company is called with by fetch_phase
skip_existing == TRUE

\* EdgarFetcher.save_to_database: INSERT INTO filings (..., status) VALUES (..., 'pending')
\* always inserts a new row and never touches an existing one.
FetchedStatus == "pending"

\* process_company, lines 199-208: fetch_latest_filings; its exception leaves
\* process_company, which fetch_phase catches.
FetchList ==
    /\ FetchFrame
    /\ fpc = "list"
    /\ frun \in 1..2
    /\ \/ /\ fpc' = "loop"
          /\ fidx' = 1
          /\ processed' = 0
          /\ UNCHANGED frun
       \/ /\ fpc' = "list"
          /\ frun' = frun + 1
          /\ UNCHANGED <<fidx, processed>>
    /\ UNCHANGED <<storeVars, listed, returned, savedBy, extraRows>>

\* process_company, lines 210-217: the skip check of the next filing; an
\* exception of the query is outside the try block and ends the run.
FetchCheck ==
    /\ FetchFrame
    /\ fpc = "loop"
    /\ fidx <= Len(listed)
    /\ \/ /\ IF skip_existing /\ check_if_exists(listed[fidx])
             THEN fidx' = fidx + 1 /\ UNCHANGED fpc
             ELSE fpc' = "work" /\ UNCHANGED fidx
          /\ UNCHANGED frun
       \/ /\ fpc' = "list"
          /\ frun' = frun + 1
          /\ UNCHANGED fidx
    /\ UNCHANGED <<storeVars, listed, processed, returned, savedBy, extraRows>>

\* process_company, lines 219-244: download, upload, save and count the
\* filing; any exception is logged and the loop continues.
FetchWork ==
    /\ FetchFrame
    /\ fpc = "work"
    /\ LET a == listed[fidx]
       IN \/ /\ IF filingStatus[a] = "absent"
                THEN /\ filingStatus' = [filingStatus EXCEPT ![a] = FetchedStatus]
                     /\ UNCHANGED extraRows
                ELSE /\ extraRows' = [extraRows EXCEPT ![a] = @ + 1]
                     /\ UNCHANGED filingStatus
             /\ processed' = processed + 1
             /\ savedBy' = [savedBy EXCEPT ![frun] = @ \cup {a}]
          \/ UNCHANGED <<filingStatus, extraRows, processed, savedBy>>
    /\ fidx' = fidx + 1
    /\ fpc' = "loop"
    /\ UNCHANGED <<contentRows, content_status_default, savesEntered,
                   insertAttempts, listed, frun, returned>>

\* process_company, line 246: return processed
FetchReturn ==
    /\ FetchFrame
    /\ fpc = "loop"
    /\ fidx > Len(listed)
    /\ returned' = [returned EXCEPT ![frun] = processed]
    /\ frun' = frun + 1
    /\ fpc' = "list"
    /\ UNCHANGED <<storeVars, listed, fidx, processed, savedBy, extraRows>>

(***************************************************************************)
(* scripts/backfill_bull_bear.py: delete content and re-analyse            *)
(***************************************************************************)

ResetFrame ==
    UNCHANGED <<orchVars, poolVars, peerVars, rateVars, fetchVars, stageVars>>

\* the status delete_existing_content gives the filing
ResetStatus == "fetched"

\* get_recent_filings: WHERE f.status = 'analyzed'
ResetQuery ==
    /\ ResetFrame
    /\ resetPc = "query"
    /\ resetList' = {f \in Filings : filingStatus[f] = "analyzed"}
    /\ resetPc' = "next"
    /\ UNCHANGED <<storeVars, resetFiling, resets>>

\* main, lines 119-121 and delete_existing_content: DELETE FROM content,
\* UPDATE filings SET status = 'fetched', commit
ResetDelete ==
    /\ ResetFrame
    /\ resetPc = "next"
    /\ resetList # {}
    /\ LET f == CHOOSE g \in resetList : \A h \in resetList : h <= g
       IN /\ resetFiling' = f
          /\ resetList' = resetList \ {f}
          /\ contentRows' = [contentRows EXCEPT ![f] = 0]
          /\ filingStatus' = [filingStatus EXCEPT ![f] = ResetStatus]
          /\ resets' = resets \cup {f}
    /\ resetPc' = "reanalyze"
    /\ UNCHANGED <<content_status_default, savesEntered, insertAttempts>>

\* main, lines 123-129: analyze_filing and save_to_database; an exception of
\* either is caught and the loop continues
ResetReanalyze ==
    /\ ResetFrame
    /\ resetPc = "reanalyze"
    /\ \/ /\ SaveCommit(resetFiling)
          /\ savesEntered' = [savesEntered EXCEPT ![resetFiling] = @ + 1]
          /\ insertAttempts' = [insertAttempts EXCEPT ![resetFiling] = @ + 1]
       \/ UNCHANGED <<filingStatus, contentRows, savesEntered, insertAttempts>>
    /\ resetPc' = "next"
    /\ UNCHANGED <<content_status_default, resetList, resetFiling, resets>>

\* The store before two runs of the fetch stage: the external source lists
\* the first n accession numbers; the first m of them are stored already,
\* the first k of those analysed by an earlier run of the pipeline.
StoreInit ==
    /\ OrchIdle
    /\ PoolIdle
    /\ RateIdle
    /\ \E n \in 0..MaxFilings : \E m \in 0..n : \E k \in 0..m :
          /\ listed = [j \in 1..n |-> j]
          /\ filingStatus = [f \in Filings |->
                                IF f <= k THEN "analyzed"
                                ELSE IF f <= m THEN "pending" ELSE "absent"]
          /\ contentRows = [f \in Filings |-> IF f <= k THEN 1 ELSE 0]
    /\ content_status_default \in ContentStatuses
    /\ savesEntered = [f \in Filings |-> 0]
    /\ insertAttempts = [f \in Filings |-> 0]
    /\ frun = 1
    /\ fpc = "list"
    /\ fidx = 0
    /\ processed = 0
    /\ returned = [r \in 1..2 |-> -1]
    /\ savedBy = [r \in 1..2 |-> {}]
    /\ extraRows = [f \in Filings |-> 0]
    /\ peerPc = "query"
    /\ peerList = {}
    /\ peerFiling = 0
    /\ peerRowsSeen = -1
    /\ resetPc = "query"
    /\ resetList = {}
    /\ resetFiling = 0
    /\ resets = {}

StoreNext ==
    \/ FetchList
    \/ FetchCheck
    \/ FetchWork
    \/ FetchReturn
    \/ PeerQuery
    \/ PeerCheck
    \/ PeerAnalyze
    \/ PeerSave
    \/ ResetQuery
    \/ ResetDelete
    \/ ResetReanalyze

(***************************************************************************)
(* The publish stage: pipeline/main.py publish_phase, publish_backfill.py, *)
(* pipeline/publishers/email.py                                            *)
(***************************************************************************)

Contents == 1..MaxContent

PubFrame ==
    UNCHANGED <<orchVars, storeVars, poolVars, peerVars, rateVars, fetchVars, resetVars,
                genVars, limVars, bfVars, irVars, sendVars, pageVars>>

\* publish_summary.txt before the run writes it
NoSummary == [written |-> FALSE, passed |-> 0, failed |-> 0]

NoDeliveries == [c \in Contents |-> [sent |-> 0, failed |-> 0]]

PubIdle ==
    /\ pubArgs = [runner |-> "phase", dry_run |-> FALSE, limit |-> 0]
    /\ ppc = "off"
    /\ pub_exit = -1
    /\ summary_file = NoSummary
    /\ pcontent = [c \in Contents |->
                      [email_html |-> FALSE, published_at |-> FALSE, status |-> "draft"]]
    /\ deliveries = NoDeliveries
    /\ subscribers = 0
    /\ emails_sent = 0
    /\ ready_content = <<>>
    /\ pubIdx = 0
    /\ total_published = 0
    /\ published_count = 0
    /\ failed_count = 0
    /\ total_failed = 0
    /\ ready0 = {}
    /\ deliveries0 = NoDeliveries
    /\ pubDbFailed = FALSE

\* publish_phase, lines 320-335: content with published_at and email_html
\* and no email_deliveries row with status 'sent'
ReadyForPhase(c) ==
    pcontent[c].published_at /\ pcontent[c].email_html /\ deliveries[c].sent = 0

\* EmailPublisher.get_ready_content / count_ready_content: status = 'generated'
ReadyForBackfill(c) == pcontent[c].status = "generated"

IsReady(runner, c) == IF runner = "phase" THEN ReadyForPhase(c) ELSE ReadyForBackfill(c)

ReadySet(runner) == {c \in Contents : IsReady(runner, c)}

\* the ready content among the ids 1..n, most recent (highest id) first
RECURSIVE ReadyRecentFirst(_, _)
ReadyRecentFirst(runner, n) ==
    IF n = 0 THEN <<>>
    ELSE IF IsReady(runner, n) THEN <<n>> \o ReadyRecentFirst(runner, n - 1)
    ELSE ReadyRecentFirst(runner, n - 1)

\* publish_phase: "LIMIT 10"
publish_phase_limit == 10

\* fetch_content: the SELECT list has six expressions (lines 71-77) ...
fetch_content_columns == 6

\* ... and the dictionary built from the row reads row[0] to row[6] (lines 90-98)
fetch_content_last_index == 6

\* Reading row[i] of a row of n columns raises IndexError unless i < n; the
\* handler of fetch_content turns every exception into FetchError.
fetch_content(c) ==
    IF fetch_content_last_index < fetch_content_columns THEN "row" ELSE "FetchError"

PublishError == [kind |-> "PublishError", status |-> "-", recipient_count |-> 0, sent |-> 0]

\* EmailPublisher.publish, lines 298-304: the overall status of a send
\*   if sent_count == 0: FAILED / elif failed_count > 0: SENT / else: SENT
overall_status(sent_count, nfailed) ==
    IF sent_count = 0 THEN "failed" ELSE IF nfailed > 0 THEN "sent" ELSE "sent"

\* mutant: publish sends to every subscriber whatever dry_run says
publish_SendsAlways(c, dry_run, audienceFails, nsent) ==
    [kind |-> "result", status |-> IF nsent = 0 THEN "failed" ELSE "sent",
     recipient_count |-> nsent, sent |-> nsent]

\* EmailPublisher.publish(content_id, EMAIL_NEWSLETTER, None, dry_run): the
\* PublishResult it returns, or PublishError.  nsent is the number of
\* subscribers the mail API accepted a message for.
publish(c, dry_run, audienceFails, nsent) ==
    IF fetch_content(c) # "row" THEN PublishError
    ELSE IF ~pcontent[c].email_html THEN PublishError
    ELSE IF audienceFails THEN PublishError
    ELSE IF subscribers = 0
         THEN [kind |-> "result", status |-> "sent", recipient_count |-> 0, sent |-> 0]
    ELSE IF dry_run
         THEN [kind |-> "result", status |-> "sent", recipient_count |-> subscribers,
               sent |-> 0]
    ELSE [kind |-> "result", status |-> overall_status(nsent, subscribers - nsent),
          recipient_count |-> nsent, sent |-> nsent]

\* the parameters of EmailPublisher.publish after self, in order
publish_parameters == <<"content_id", "channel", "audience_filter", "dry_run">>

\* those without a default value
publish_required == {"content_id", "channel"}

\* publish_phase: publisher.publish(content_id=..., channel=..., dry_run=dry_run)
PhaseCall == [npos |-> 0, kw |-> {"content_id", "channel", "dry_run"}]

\* publish_batch: self.publish(item['content_id'], tier=tier, dry_run=dry_run)
BatchCall == [npos |-> 1, kw |-> {"tier", "dry_run"}]

\* Python's argument binding: the call raises TypeError unless every keyword
\* names a parameter not already filled by position and every required
\* parameter is filled.
CallBinds(call) ==
    LET names == {publish_parameters[i] : i \in 1..Len(publish_parameters)}
        filled == {publish_parameters[i] : i \in 1..call.npos}
    IN /\ call.npos <= Len(publish_parameters)
       /\ call.kw \subseteq names \ filled
       /\ publish_required \subseteq filled \cup call.kw

\* what the call of publish made by the runner evaluates to
CallPublish(call, c, dry_run, audienceFails, nsent) ==
    IF CallBinds(call) THEN publish(c, dry_run, audienceFails, nsent)
    ELSE [PublishError EXCEPT !.kind = "TypeError"]

\* main(), lines 406-409 of pipeline/main.py: connect; publish_backfill.main,
\* lines 96-108: connect and count the ready content, exit 0 when there is none.
\* A failure reaches the outer handler, which exits 1.
PubStart ==
    /\ PubFrame
    /\ ppc = "start"
    /\ \/ /\ IF pubArgs.runner = "backfill" /\ ReadySet("backfill") = {}
             THEN ppc' = "done" /\ pub_exit' = ExitReturn
             ELSE ppc' = "query" /\ UNCHANGED pub_exit
          /\ UNCHANGED pubDbFailed
       \/ /\ ppc' = "exit1"
          /\ pub_exit' = ExitFatal
          /\ pubDbFailed' = TRUE
    /\ UNCHANGED <<pubArgs, summary_file, pcontent, deliveries, subscribers, emails_sent,
                   ready_content, pubIdx, total_published, published_count,
                   failed_count, total_failed, ready0, deliveries0>>

\* publish_phase, lines 318-338, and publish_batch, line 584: the candidate
\* query.  publish_phase lets a failure propagate to main's handler (exit 1);
\* publish_backfill.main catches publish_batch's DatabaseError and counts it.
PubQuery ==
    /\ PubFrame
    /\ ppc = "query"
    /\ LET runner == pubArgs.runner
           all == ReadyRecentFirst(runner, MaxContent)
           limit == IF runner = "phase" THEN publish_phase_limit
                    ELSE IF pubArgs.limit # 0 THEN pubArgs.limit ELSE Len(all)
       IN \/ /\ ready_content' = Take(all, limit)
             /\ ppc' = "loop"
             /\ UNCHANGED <<pub_exit, total_failed, pubDbFailed>>
          \/ /\ pubDbFailed' = TRUE
             /\ IF runner = "phase"
                THEN ppc' = "exit1" /\ pub_exit' = ExitFatal /\ UNCHANGED total_failed
                ELSE ppc' = "summary" /\ total_failed' = total_failed + 1
                     /\ UNCHANGED pub_exit
             /\ UNCHANGED ready_content
    /\ UNCHANGED <<pubArgs, summary_file, pcontent, deliveries, subscribers, emails_sent, pubIdx,
                   total_published, published_count, failed_count, ready0,
                   deliveries0>>

\* EmailPublisher.save_delivery_record: one email_deliveries row with the
\* result's status
save_delivery_record(c, r) ==
    [deliveries EXCEPT ![c] = IF r.status = "sent"
                              THEN [@ EXCEPT !.sent = @ + 1]
                              ELSE [@ EXCEPT !.failed = @ + 1]]

\* publish_phase, lines 347-366: one iteration of the loop over ready_content.
\* Any exception of publish or of save_delivery_record is caught and the loop
\* continues.
PubPhaseItem ==
    /\ PubFrame
    /\ ppc = "loop"
    /\ pubArgs.runner = "phase"
    /\ pubIdx < Len(ready_content)
    /\ pubIdx' = pubIdx + 1
    /\ \E audienceFails \in BOOLEAN, nsent \in 0..subscribers, saveFails \in BOOLEAN :
          LET c == ready_content[pubIdx + 1]
              r == CallPublish(PhaseCall, c, pubArgs.dry_run, audienceFails, nsent)
          IN IF r.kind # "result"
             THEN /\ pubDbFailed' = (pubDbFailed \/ audienceFails)
                  /\ UNCHANGED <<emails_sent, deliveries, total_published>>
             ELSE /\ emails_sent' = emails_sent + r.sent
                  /\ IF pubArgs.dry_run
                     THEN /\ total_published' = total_published + 1
                          /\ UNCHANGED <<deliveries, pubDbFailed>>
                     ELSE IF saveFails
                          THEN /\ pubDbFailed' = TRUE
                               /\ UNCHANGED <<deliveries, total_published>>
                          ELSE /\ deliveries' = save_delivery_record(c, r)
                               /\ total_published' = total_published + 1
                               /\ UNCHANGED pubDbFailed
    /\ UNCHANGED <<pubArgs, summary_file, ppc, pub_exit, pcontent, subscribers, ready_content,
                   published_count, failed_count, total_failed, ready0, deliveries0>>

\* publish_batch, lines 588-599: one iteration of the loop over the items
PubBatchItem ==
    /\ PubFrame
    /\ ppc = "loop"
    /\ pubArgs.runner = "backfill"
    /\ pubIdx < Len(ready_content)
    /\ pubIdx' = pubIdx + 1
    /\ \E audienceFails \in BOOLEAN, nsent \in 0..subscribers :
          LET c == ready_content[pubIdx + 1]
              r == CallPublish(BatchCall, c, pubArgs.dry_run, audienceFails, nsent)
          IN IF r.kind # "result"
             THEN /\ failed_count' = failed_count + 1
                  /\ pubDbFailed' = (pubDbFailed \/ (r.kind # "TypeError" /\ audienceFails))
                  /\ UNCHANGED <<emails_sent, published_count>>
             ELSE /\ published_count' = published_count + 1
                  /\ emails_sent' = emails_sent + r.sent
                  /\ UNCHANGED <<failed_count, pubDbFailed>>
    /\ UNCHANGED <<pubArgs, summary_file, ppc, pub_exit, pcontent, deliveries, subscribers,
                   ready_content, total_published, total_failed, ready0, deliveries0>>

\* publish_phase, lines 368-369, and main's return: exit code 0
PubPhaseEnd ==
    /\ PubFrame
    /\ ppc = "loop"
    /\ pubArgs.runner = "phase"
    /\ pubIdx = Len(ready_content)
    /\ ppc' = "done"
    /\ pub_exit' = ExitReturn
    /\ UNCHANGED <<pubArgs, summary_file, pcontent, deliveries, subscribers, emails_sent,
                   ready_content, pubIdx, total_published, published_count,
                   failed_count, total_failed, ready0, deliveries0, pubDbFailed>>

\* publish_backfill.main, lines 135-164: take the counters of publish_batch;
\* a live run queries the ready content once more, and a failure of that
\* query is caught and counted as one more failure.
PubBatchEnd ==
    /\ PubFrame
    /\ ppc = "loop"
    /\ pubArgs.runner = "backfill"
    /\ pubIdx = Len(ready_content)
    /\ ppc' = "summary"
    /\ \/ /\ total_failed' = failed_count
          /\ UNCHANGED pubDbFailed
       \/ /\ ~pubArgs.dry_run
          /\ total_failed' = failed_count + 1
          /\ pubDbFailed' = TRUE
    /\ UNCHANGED <<pubArgs, summary_file, pub_exit, pcontent, deliveries, subscribers, emails_sent,
                   ready_content, pubIdx, total_published, published_count,
                   failed_count, ready0, deliveries0>>

\* publish_backfill.main, lines 166-193: write the summary and return
PubSummary ==
    /\ PubFrame
    /\ ppc = "summary"
    /\ ppc' = "done"
    /\ pub_exit' = ExitReturn
    /\ summary_file' = [written |-> TRUE, passed |-> published_count,
                        failed |-> total_failed]
    /\ UNCHANGED <<pubArgs, pcontent, deliveries, subscribers, emails_sent,
                   ready_content, pubIdx, total_published, published_count,
                   failed_count, total_failed, ready0, deliveries0, pubDbFailed>>

\* The store and the command line at the start of a publish run.
PubInit ==
    /\ pubArgs \in [runner : {"phase", "backfill"}, dry_run : BOOLEAN,
                    limit : 0..MaxContent]
    /\ ppc = "start"
    /\ pub_exit = -1
    /\ summary_file = NoSummary
    /\ pcontent \in [Contents -> [email_html : BOOLEAN, published_at : BOOLEAN,
                                  status : {"draft", "generated"}]]
    /\ deliveries \in [Contents -> [sent : 0..1, failed : {0}]]
    /\ subscribers \in 0..MaxSubscribers
    /\ emails_sent = 0
    /\ ready_content = <<>>
    /\ pubIdx = 0
    /\ total_published = 0
    /\ published_count = 0
    /\ failed_count = 0
    /\ total_failed = 0
    /\ ready0 = ReadySet(pubArgs.runner)
    /\ deliveries0 = deliveries
    /\ pubDbFailed = FALSE

PubNext ==
    \/ PubStart
    \/ PubQuery
    \/ PubPhaseItem
    \/ PubBatchItem
    \/ PubPhaseEnd
    \/ PubBatchEnd
    \/ PubSummary

(***************************************************************************)
(* The generate stage: generate_parallel.py, pipeline/generators/base.py,  *)
(* pipeline/generators/blog.py, beside the transactions of the analyzer    *)
(***************************************************************************)

Runs == 1..MaxRuns

GenFrame ==
    UNCHANGED <<orchVars, storeVars, poolVars, peerVars, rateVars, fetchVars, resetVars,
                pubVars, limVars, bfVars, irVars, sendVars, pageVars>>

NoRow == [row |-> "absent", executive_summary |-> FALSE, blog_html |-> FALSE,
          email_html |-> FALSE]

NewGenTask == [pc |-> "new", res |-> "-"]

NoneBy == [r \in Runs |-> {}]

GenIdle ==
    /\ gargs = [workers |-> 1, limit |-> 1, dry_run |-> FALSE]
    /\ gpc = "off"
    /\ grun = 1
    /\ gen_exit = -1
    /\ gen_connects = 0
    /\ gcontent = [c \in Contents |-> NoRow]
    /\ pending_content = <<>>
    /\ gsubmitted = 0
    /\ gthreads = 0
    /\ gtask = [i \in Contents |-> NewGenTask]
    /\ gcollected = {}
    /\ gcompleted = 0
    /\ gsuccessful = 0
    /\ gfailed = 0
    /\ selectedBy = NoneBy
    /\ startedBy = NoneBy
    /\ generatedBy = NoneBy

\* mutant: the query also reads rows whose transaction has not committed
Visible_Dirty(c) == gcontent[c].row \in {"committed", "uncommitted"}

\* a row other sessions can read: READ COMMITTED shows committed rows only
Visible(c) == gcontent[c].row = "committed"

\* mutant: the candidate query has no condition on the summary
HasSummary_Any(c) == TRUE

\* get_pending_content, "WHERE c.executive_summary IS NOT NULL"
HasSummary(c) == gcontent[c].executive_summary

\* get_pending_content, "AND (c.blog_html IS NULL OR c.email_html IS NULL)"
NeedsGeneration(c) == ~gcontent[c].blog_html \/ ~gcontent[c].email_html

IsPendingContent(c) == Visible(c) /\ HasSummary(c) /\ NeedsGeneration(c)

\* the pending content ordered by created_at DESC (a higher id is a more
\* recent row), among the ids 1..n
RECURSIVE PendingContentRecentFirst(_)
PendingContentRecentFirst(n) ==
    IF n = 0 THEN <<>>
    ELSE IF IsPendingContent(n) THEN <<n>> \o PendingContentRecentFirst(n - 1)
    ELSE PendingContentRecentFirst(n - 1)

\* get_pending_content(conn, limit)
get_pending_content(limit) == Take(PendingContentRecentFirst(MaxContent), limit)

GN == Len(pending_content)

GenRunning == {"generate", "save"}

ActiveGenTasks == {i \in 1..GN : gtask[i].pc \in GenRunning}

QueuedGenTasks == {i \in 1..GN : gtask[i].pc = "queued"}

\* generate_content, lines 54-57: the tuple returned for the results dict
\*   "ok"        (content_id, True,  "✓ ...")
\*   "noresults" (content_id, False, "⊘ ... (no results)")
generate_content_return(results) == IF results # {} THEN "ok" ELSE "noresults"

\* main(), lines 108-111: validate the worker count before anything else
GenValidate ==
    /\ GenFrame
    /\ gpc = "validate"
    /\ IF workers_in_bounds(gargs.workers, max_workers_generate)
       THEN /\ gpc' = "query"
            /\ UNCHANGED gen_exit
       ELSE /\ gpc' = "exit1"
            /\ gen_exit' = ExitFatal
    /\ UNCHANGED <<gargs, grun, gen_connects, gcontent, pending_content, gsubmitted,
                   gthreads, gtask, gcollected, gcompleted, gsuccessful, gfailed,
                   selectedBy, startedBy, generatedBy>>

\* main(), lines 128-149: connect, fetch the candidates; a failure is exit 1,
\* an empty list returns, and so does --dry-run after listing the candidates.
GenQuery ==
    /\ GenFrame
    /\ gpc = "query"
    /\ gen_connects' = gen_connects + 1
    /\ \/ /\ pending_content' = get_pending_content(gargs.limit)
          /\ selectedBy' = [selectedBy EXCEPT ![grun] =
                              {pending_content'[i] : i \in 1..Len(pending_content')}]
          /\ IF pending_content' = <<>> \/ gargs.dry_run
             THEN /\ gpc' = "returned"
                  /\ gen_exit' = ExitReturn
             ELSE /\ gpc' = "submit"
                  /\ UNCHANGED gen_exit
       \/ /\ gpc' = "exit1"
          /\ gen_exit' = ExitFatal
          /\ UNCHANGED <<pending_content, selectedBy>>
    /\ UNCHANGED <<gargs, grun, gcontent, gsubmitted, gthreads, gtask, gcollected,
                   gcompleted, gsuccessful, gfailed, startedBy, generatedBy>>

\* main(), lines 156-169: executor.submit of the next candidate.  The
\* executor starts a new thread when none is idle and fewer than max_workers
\* exist.
GenSubmit ==
    /\ GenFrame
    /\ gpc = "submit"
    /\ gsubmitted < GN
    /\ LET i == gsubmitted + 1
           idle == gthreads - Cardinality(ActiveGenTasks) - Cardinality(QueuedGenTasks)
       IN /\ gtask' = [gtask EXCEPT ![i].pc = "queued"]
          /\ gthreads' = IF idle <= 0 /\ gthreads < PoolSize(gargs.workers, GN)
                         THEN gthreads + 1 ELSE gthreads
          /\ gsubmitted' = i
    /\ UNCHANGED <<gargs, gpc, grun, gen_exit, gen_connects, gcontent, pending_content,
                   gcollected, gcompleted, gsuccessful, gfailed, selectedBy,
                   startedBy, generatedBy>>

\* main(), line 173: all candidates are submitted, start consuming futures
GenStartCollect ==
    /\ GenFrame
    /\ gpc = "submit"
    /\ gsubmitted = GN
    /\ gpc' = "collect"
    /\ UNCHANGED <<gargs, grun, gen_exit, gen_connects, gcontent, pending_content,
                   gsubmitted, gthreads, gtask, gcollected, gcompleted, gsuccessful,
                   gfailed, selectedBy, startedBy, generatedBy>>

\* a free worker thread takes the oldest queued task and calls
\* generate_content, which opens its own connection and calls
\* process_content (lines 41-50); an exception becomes a failure tuple.
GenTaskStart(i) ==
    /\ GenFrame
    /\ gtask[i].pc = "queued"
    /\ \A j \in QueuedGenTasks : i <= j
    /\ Cardinality(ActiveGenTasks) < gthreads
    /\ gen_connects' = gen_connects + 1
    /\ \/ /\ gtask' = [gtask EXCEPT ![i].pc = "generate"]
          /\ startedBy' = [startedBy EXCEPT ![grun] = @ \cup {pending_content[i]}]
       \/ /\ gtask' = [gtask EXCEPT ![i] = [pc |-> "finished", res |-> "error"]]
          /\ UNCHANGED startedBy
    /\ UNCHANGED <<gargs, gpc, grun, gen_exit, gcontent, pending_content, gsubmitted,
                   gthreads, gcollected, gcompleted, gsuccessful, gfailed,
                   selectedBy, generatedBy>>

\* process_content, lines 196-205: generate the HTML and validate it.  An
\* exception of generate is caught and a rejected output skipped: in both
\* cases the results stay empty.
GenTaskGenerate(i) ==
    /\ GenFrame
    /\ gtask[i].pc = "generate"
    /\ \/ gtask' = [gtask EXCEPT ![i].pc = "save"]
       \/ gtask' = [gtask EXCEPT ![i] =
                      [pc |-> "finished", res |-> generate_content_return({})]]
    /\ UNCHANGED <<gargs, gpc, grun, gen_exit, gen_connects, gcontent, pending_content,
                   gsubmitted, gthreads, gcollected, gcompleted, gsuccessful,
                   gfailed, selectedBy, startedBy, generatedBy>>

\* BlogGenerator.save_to_database: the UPDATE sets blog_html (and
\* published_at, updated_at) and commits, or the transaction is rolled back
\* and DatabaseError raised, which process_content catches.
GenTaskSave(i) ==
    /\ GenFrame
    /\ gtask[i].pc = "save"
    /\ LET c == pending_content[i]
       IN \/ /\ gcontent' = [gcontent EXCEPT ![c].blog_html = TRUE]
             /\ generatedBy' = [generatedBy EXCEPT ![grun] = @ \cup {c}]
             /\ gtask' = [gtask EXCEPT ![i] =
                            [pc |-> "finished",
                             res |-> generate_content_return({"blog_post_html"})]]
          \/ /\ gtask' = [gtask EXCEPT ![i] =
                            [pc |-> "finished", res |-> generate_content_return({})]]
             /\ UNCHANGED <<gcontent, generatedBy>>
    /\ UNCHANGED <<gargs, gpc, grun, gen_exit, gen_connects, pending_content,
                   gsubmitted, gthreads, gcollected, gcompleted, gsuccessful,
                   gfailed, selectedBy, startedBy>>

\* main(), lines 173-183: one iteration of "for future in as_completed(futures)"
GenCollect(i) ==
    /\ GenFrame
    /\ gpc = "collect"
    /\ i \in 1..GN
    /\ i \notin gcollected
    /\ gtask[i].pc = "finished"
    /\ gcollected' = gcollected \cup {i}
    /\ gcompleted' = gcompleted + 1
    /\ IF gtask[i].res = "ok"
       THEN /\ gsuccessful' = gsuccessful + 1
            /\ UNCHANGED gfailed
       ELSE /\ gfailed' = gfailed + 1
            /\ UNCHANGED gsuccessful
    /\ UNCHANGED <<gargs, gpc, grun, gen_exit, gen_connects, gcontent, pending_content,
                   gsubmitted, gthreads, gtask, selectedBy, startedBy, generatedBy>>

\* main(), lines 185-200: every future is consumed, the pool is shut down,
\* the summary is printed and main returns.
GenSummary ==
    /\ GenFrame
    /\ gpc = "collect"
    /\ gcollected = 1..GN
    /\ gpc' = "returned"
    /\ gen_exit' = ExitReturn
    /\ UNCHANGED <<gargs, grun, gen_connects, gcontent, pending_content, gsubmitted,
                   gthreads, gtask, gcollected, gcompleted, gsuccessful, gfailed,
                   selectedBy, startedBy, generatedBy>>

\* the script is run again after the previous run has ended: main() starts
\* over with the same command line and the store as the previous run left it
GenRunAgain ==
    /\ GenFrame
    /\ gpc \in {"returned", "exit1"}
    /\ grun < MaxRuns
    /\ grun' = grun + 1
    /\ gpc' = "validate"
    /\ gen_exit' = -1
    /\ gen_connects' = 0
    /\ pending_content' = <<>>
    /\ gsubmitted' = 0
    /\ gthreads' = 0
    /\ gtask' = [i \in Contents |-> NewGenTask]
    /\ gcollected' = {}
    /\ gcompleted' = 0
    /\ gsuccessful' = 0
    /\ gfailed' = 0
    /\ UNCHANGED <<gargs, gcontent, selectedBy, startedBy, generatedBy>>

\* the content id the next INSERT INTO content receives: rows are numbered
\* in the order of their creation
NextContentId == Cardinality({c \in Contents : gcontent[c].row # "absent"}) + 1

\* ClaudeAnalyzer.save_to_database, lines 688-718, in an analyze worker: the
\* INSERT of the content row, not yet committed.  executive_summary is
\* "result.tldr_summary or result.deep_intro", NULL when both are None; the
\* statement names neither blog_html nor email_html.
AnalyzerInsert ==
    /\ GenFrame
    /\ NextContentId \in Contents
    /\ \E summary \in BOOLEAN :
         gcontent' = [gcontent EXCEPT ![NextContentId] =
                        [row |-> "uncommitted", executive_summary |-> summary,
                         blog_html |-> FALSE, email_html |-> FALSE]]
    /\ UNCHANGED <<gargs, gpc, grun, gen_exit, gen_connects, pending_content,
                   gsubmitted, gthreads, gtask, gcollected, gcompleted, gsuccessful,
                   gfailed, selectedBy, startedBy, generatedBy>>

\* ClaudeAnalyzer.save_to_database, line 728: self.db_connection.commit()
AnalyzerCommit(c) ==
    /\ GenFrame
    /\ gcontent[c].row = "uncommitted"
    /\ gcontent' = [gcontent EXCEPT ![c].row = "committed"]
    /\ UNCHANGED <<gargs, gpc, grun, gen_exit, gen_connects, pending_content,
                   gsubmitted, gthreads, gtask, gcollected, gcompleted, gsuccessful,
                   gfailed, selectedBy, startedBy, generatedBy>>

\* ClaudeAnalyzer.save_to_database, lines 739-741: rollback, the row is gone
\* and its id is not used again
AnalyzerRollback(c) ==
    /\ GenFrame
    /\ gcontent[c].row = "uncommitted"
    /\ gcontent' = [gcontent EXCEPT ![c] = [NoRow EXCEPT !.row = "rolledback"]]
    /\ UNCHANGED <<gargs, gpc, grun, gen_exit, gen_connects, pending_content,
                   gsubmitted, gthreads, gtask, gcollected, gcompleted, gsuccessful,
                   gfailed, selectedBy, startedBy, generatedBy>>

\* The first run starts.  The store holds the rows 1..k of earlier analyze
\* runs, committed; email_html is written by no statement of the pipeline,
\* a row that has it got it from outside.
GenInit ==
    /\ gargs \in [workers : WorkerArgs(max_workers_generate), limit : 1..MaxContent,
                  dry_run : BOOLEAN]
    /\ gpc = "validate"
    /\ grun = 1
    /\ gen_exit = -1
    /\ gen_connects = 0
    /\ gcontent \in [Contents -> [row : {"absent", "committed"},
                                   executive_summary : BOOLEAN,
                                   blog_html : BOOLEAN,
                                   email_html : BOOLEAN]]
    /\ \E k \in 0..MaxContent :
         \A c \in Contents :
            IF c <= k THEN gcontent[c].row = "committed" ELSE gcontent[c] = NoRow
    /\ pending_content = <<>>
    /\ gsubmitted = 0
    /\ gthreads = 0
    /\ gtask = [i \in Contents |-> NewGenTask]
    /\ gcollected = {}
    /\ gcompleted = 0
    /\ gsuccessful = 0
    /\ gfailed = 0
    /\ selectedBy = NoneBy
    /\ startedBy = NoneBy
    /\ generatedBy = NoneBy

\* one run after another of generate_parallel.py
GenRunnerNext ==
    \/ GenValidate
    \/ GenQuery
    \/ GenSubmit
    \/ GenStartCollect
    \/ \E i \in Contents : GenTaskStart(i)
    \/ \E i \in Contents : GenTaskGenerate(i)
    \/ \E i \in Contents : GenTaskSave(i)
    \/ \E i \in Contents : GenCollect(i)
    \/ GenSummary
    \/ GenRunAgain

\* the analyze workers that are still running in overlap mode
AnalyzerNext ==
    \/ AnalyzerInsert
    \/ \E c \in Contents : AnalyzerCommit(c)
    \/ \E c \in Contents : AnalyzerRollback(c)

GenNext ==
    \/ GenRunnerNext
    \/ AnalyzerNext

(***************************************************************************)
(* pipeline/fetchers/edgar.py: one EdgarFetcher, and so one rate limiter,  *)
(* per concurrent worker                                                   *)
(***************************************************************************)

RateWorkers == 1..MaxRateWorkers

LimFrame ==
    UNCHANGED <<orchVars, storeVars, poolVars, peerVars, rateVars, fetchVars, resetVars,
                pubVars, genVars, bfVars, irVars, sendVars, pageVars>>

LimIdle ==
    /\ wnow = 0
    /\ limiter = [k \in RateWorkers |-> 0]
    /\ wpc = [w \in RateWorkers |-> "off"]
    /\ wwake = [w \in RateWorkers |-> 0]
    /\ wcalls = [w \in RateWorkers |-> 0]
    /\ wslept = [w \in RateWorkers |-> FALSE]
    /\ wstamp = [w \in RateWorkers |-> -1]

\* every worker has constructed its fetcher: EdgarFetcher.__init__, lines 54-56
LimInit ==
    /\ wnow = StartTime
    /\ limiter = [k \in RateWorkers |-> 0]
    /\ wpc = [w \in RateWorkers |-> "idle"]
    /\ wwake = [w \in RateWorkers |-> 0]
    /\ wcalls = [w \in RateWorkers |-> 0]
    /\ wslept = [w \in RateWorkers |-> FALSE]
    /\ wstamp = [w \in RateWorkers |-> -1]

\* mutant: last_request_time is one value shared by every fetcher
LimiterOf_Shared(w) == 1

\* the limiter a worker's calls go through: last_request_time is an
\* attribute of the worker's own fetcher
LimiterOf(w) == w

\* time passes
LimTick ==
    /\ LimFrame
    /\ wnow < MaxTime
    /\ wnow' = wnow + 1
    /\ UNCHANGED <<limiter, wpc, wwake, wcalls, wslept, wstamp>>

\* _make_request, line 85: worker w enters _rate_limit of its fetcher
LimCall(w) ==
    /\ LimFrame
    /\ wpc[w] = "idle"
    /\ wcalls[w] < MaxWorkerCalls
    /\ wpc' = [wpc EXCEPT ![w] = "read"]
    /\ UNCHANGED <<wnow, limiter, wwake, wcalls, wslept, wstamp>>

\* _rate_limit, lines 66-69: read the clock, decide to sleep
LimRead(w) ==
    /\ LimFrame
    /\ wpc[w] = "read"
    /\ LET elapsed == wnow - limiter[LimiterOf(w)]
       IN IF elapsed < min_request_interval
          THEN /\ wwake' = [wwake EXCEPT ![w] = wnow + sleep_time(elapsed)]
               /\ wpc' = [wpc EXCEPT ![w] = "sleep"]
               /\ wslept' = [wslept EXCEPT ![w] = TRUE]
          ELSE /\ wpc' = [wpc EXCEPT ![w] = "stamp"]
               /\ UNCHANGED <<wwake, wslept>>
    /\ UNCHANGED <<wnow, limiter, wcalls, wstamp>>

\* _rate_limit, line 69: time.sleep(sleep_time) returns
LimWake(w) ==
    /\ LimFrame
    /\ wpc[w] = "sleep"
    /\ wnow >= wwake[w]
    /\ wpc' = [wpc EXCEPT ![w] = "stamp"]
    /\ UNCHANGED <<wnow, limiter, wwake, wcalls, wslept, wstamp>>

\* _rate_limit, line 70: self.last_request_time = time.time()
LimStamp(w) ==
    /\ LimFrame
    /\ wpc[w] = "stamp"
    /\ limiter' = [limiter EXCEPT ![LimiterOf(w)] = wnow]
    /\ wstamp' = [wstamp EXCEPT ![w] = wnow]
    /\ wpc' = [wpc EXCEPT ![w] = "return"]
    /\ UNCHANGED <<wnow, wwake, wcalls, wslept>>

\* _rate_limit returns and _make_request issues the request
LimReturn(w) ==
    /\ LimFrame
    /\ wpc[w] = "return"
    /\ wpc' = [wpc EXCEPT ![w] = "idle"]
    /\ wcalls' = [wcalls EXCEPT ![w] = @ + 1]
    /\ UNCHANGED <<wnow, limiter, wwake, wslept, wstamp>>

LimNext ==
    \/ LimTick
    \/ \E w \in RateWorkers : LimCall(w)
    \/ \E w \in RateWorkers : LimRead(w)
    \/ \E w \in RateWorkers : LimWake(w)
    \/ \E w \in RateWorkers : LimStamp(w)
    \/ \E w \in RateWorkers : LimReturn(w)

(***************************************************************************)
(* analyze_backfill.py                                                     *)
(***************************************************************************)

BfFrame ==
    UNCHANGED <<orchVars, storeVars, poolVars, peerVars, rateVars, fetchVars, resetVars,
                pubVars, genVars, limVars, irVars, sendVars, pageVars>>

\* the methods of ClaudeAnalyzer and of BaseAnalyzer, its only base class
ClaudeAnalyzerMethods ==
    {"fetch_filing_content", "extract_relevant_sections", "analyze_filing",
     "save_to_database", "check_if_analyzed", "process_filing"}

\* the methods analyze_backfill.main calls on the analyzer
BackfillCalls ==
    {"count_pending_filings", "analyze_batch", "get_pending_filings", "analyze_filing"}

\* analyzer.<name>(...) on an object without the attribute raises AttributeError
Offers(name) == name \in bf_methods

BfIdle ==
    /\ bf_methods = ClaudeAnalyzerMethods
    /\ bf_limit = 0
    /\ bpc = "off"
    /\ bf_exit = -1
    /\ bf_cause = "none"
    /\ bf_fallback = FALSE
    /\ pending_count = 0
    /\ bf_filings = 0
    /\ bf_idx = 0
    /\ total_analyzed = 0
    /\ bf_failed_count = 0
    /\ analyze_summary = NoSummary

\* main(), lines 70-81.  The analyzer class is ClaudeAnalyzer as it is in the
\* repository, or that class with some of the other methods main() calls.
BfInit ==
    /\ bf_methods \in {ClaudeAnalyzerMethods \cup extra : extra \in SUBSET BackfillCalls}
    /\ bf_limit \in 0..MaxFilings
    /\ bpc = "construct"
    /\ bf_exit = -1
    /\ bf_cause = "none"
    /\ bf_fallback = FALSE
    /\ pending_count = 0
    /\ bf_filings = 0
    /\ bf_idx = 0
    /\ total_analyzed = 0
    /\ bf_failed_count = 0
    /\ analyze_summary = NoSummary

\* main(), lines 178-182: "except Exception", sys.exit(1)
BfFatal(cause) ==
    /\ bpc' = "exit1"
    /\ bf_exit' = ExitFatal
    /\ bf_cause' = cause

\* "limit = args.limit or pending_count"
BfLimit == IF bf_limit # 0 THEN bf_limit ELSE pending_count

\* main(), line 84: analyzer = ClaudeAnalyzer(config)
BfConstruct ==
    /\ BfFrame
    /\ bpc = "construct"
    /\ \/ /\ bpc' = "count"
          /\ UNCHANGED <<bf_exit, bf_cause>>
       \/ BfFatal("construct")
    /\ UNCHANGED <<bf_methods, bf_limit, bf_fallback, pending_count, bf_filings,
                   bf_idx, total_analyzed, bf_failed_count, analyze_summary>>

\* main(), lines 87-92: pending_count = analyzer.count_pending_filings(),
\* outside the inner try block; sys.exit(0) when nothing is pending
BfCount ==
    /\ BfFrame
    /\ bpc = "count"
    /\ IF ~Offers("count_pending_filings")
       THEN /\ BfFatal("AttributeError")
            /\ UNCHANGED pending_count
       ELSE \/ \E n \in 0..MaxFilings :
                 /\ pending_count' = n
                 /\ IF n = 0
                    THEN bpc' = "done" /\ bf_exit' = ExitReturn
                    ELSE bpc' = "batch" /\ UNCHANGED bf_exit
                 /\ UNCHANGED bf_cause
            \/ /\ BfFatal("store")
               /\ UNCHANGED pending_count
    /\ UNCHANGED <<bf_methods, bf_limit, bf_fallback, bf_filings, bf_idx,
                   total_analyzed, bf_failed_count, analyze_summary>>

\* main(), lines 106-126: results = analyzer.analyze_batch(...).  An
\* AttributeError, of the call or from inside it, selects the fallback; any
\* other exception reaches the outer handler.
BfBatch ==
    /\ BfFrame
    /\ bpc = "batch"
    /\ IF ~Offers("analyze_batch")
       THEN /\ bpc' = "fallback"
            /\ bf_fallback' = TRUE
            /\ UNCHANGED <<bf_exit, bf_cause, total_analyzed, bf_failed_count>>
       ELSE \/ \E a \in 0..BfLimit : \E f \in 0..(BfLimit - a) :
                 /\ total_analyzed' = a
                 /\ bf_failed_count' = f
                 /\ bpc' = "summary"
                 /\ UNCHANGED <<bf_exit, bf_cause, bf_fallback>>
            \/ /\ bpc' = "fallback"
               /\ bf_fallback' = TRUE
               /\ UNCHANGED <<bf_exit, bf_cause, total_analyzed, bf_failed_count>>
            \/ /\ BfFatal("store")
               /\ UNCHANGED <<bf_fallback, total_analyzed, bf_failed_count>>
    /\ UNCHANGED <<bf_methods, bf_limit, pending_count, bf_filings, bf_idx,
                   analyze_summary>>

\* main(), lines 129-130: filings = analyzer.get_pending_filings(limit=limit),
\* inside the AttributeError handler: an exception here is not handled by it
BfFallbackList ==
    /\ BfFrame
    /\ bpc = "fallback"
    /\ IF ~Offers("get_pending_filings")
       THEN /\ BfFatal("AttributeError")
            /\ UNCHANGED bf_filings
       ELSE \/ \E n \in 0..BfLimit :
                 /\ bf_filings' = n
                 /\ bpc' = "loop"
                 /\ UNCHANGED <<bf_exit, bf_cause>>
            \/ /\ BfFatal("store")
               /\ UNCHANGED bf_filings
    /\ UNCHANGED <<bf_methods, bf_limit, bf_fallback, pending_count, bf_idx,
                   total_analyzed, bf_failed_count, analyze_summary>>

\* main(), lines 133-149: one iteration of the loop; an exception of
\* analyze_filing is caught and counted
BfItem ==
    /\ BfFrame
    /\ bpc = "loop"
    /\ bf_idx < bf_filings
    /\ bf_idx' = bf_idx + 1
    /\ \/ /\ total_analyzed' = total_analyzed + 1
          /\ UNCHANGED bf_failed_count
       \/ /\ bf_failed_count' = bf_failed_count + 1
          /\ UNCHANGED total_analyzed
    /\ UNCHANGED <<bf_methods, bf_limit, bpc, bf_exit, bf_cause, bf_fallback,
                   pending_count, bf_filings, analyze_summary>>

\* main(), lines 151-157: the loop is over
BfLoopEnd ==
    /\ BfFrame
    /\ bpc = "loop"
    /\ bf_idx = bf_filings
    /\ bpc' = "summary"
    /\ UNCHANGED <<bf_methods, bf_limit, bf_exit, bf_cause, bf_fallback,
                   pending_count, bf_filings, bf_idx, total_analyzed,
                   bf_failed_count, analyze_summary>>

\* main(), lines 159-176: write analyze_summary.txt and return
BfSummary ==
    /\ BfFrame
    /\ bpc = "summary"
    /\ \/ /\ analyze_summary' = [written |-> TRUE, passed |-> total_analyzed,
                                 failed |-> bf_failed_count]
          /\ bpc' = "done"
          /\ bf_exit' = ExitReturn
          /\ UNCHANGED bf_cause
       \/ /\ BfFatal("file")
          /\ UNCHANGED analyze_summary
    /\ UNCHANGED <<bf_methods, bf_limit, bf_fallback, pending_count, bf_filings,
                   bf_idx, total_analyzed, bf_failed_count>>

BfNext ==
    \/ BfConstruct
    \/ BfCount
    \/ BfBatch
    \/ BfFallbackList
    \/ BfItem
    \/ BfLoopEnd
    \/ BfSummary

\* the stage runners that take no part in a specification
(***************************************************************************)
(* pipeline/fetchers/ir_scraper.py: IRPageScraper._rate_limit and          *)
(* _make_request.  Time is counted in seconds.                             *)
(***************************************************************************)

IrFrame ==
    UNCHANGED <<orchVars, storeVars, poolVars, peerVars, rateVars, fetchVars, resetVars,
                pubVars, genVars, limVars, bfVars, sendVars, pageVars>>

\* __init__, line 76: self.min_request_interval = 2.0
ir_min_request_interval == 2

\* __init__, line 72: self.max_retries = 3
max_retries == 3

\* _make_request, line 122: time.sleep(2 ** attempt)
backoff(a) == 2 ^ a

IrIdle ==
    /\ ir_now = 0
    /\ ir_last_request_time = 0
    /\ ipc = "off"
    /\ ir_wake = 0
    /\ attempt = 0
    /\ ir_calls = 0
    /\ ir_result = "none"
    /\ prev_request = -1
    /\ last_request = -1

\* __init__, lines 75-76; time.time() at construction is far from the
\* initial last_request_time of 0
IrInit ==
    /\ ir_now = ir_min_request_interval
    /\ ir_last_request_time = 0
    /\ ipc = "idle"
    /\ ir_wake = 0
    /\ attempt = 0
    /\ ir_calls = 0
    /\ ir_result = "none"
    /\ prev_request = -1
    /\ last_request = -1

\* time passes
IrTick ==
    /\ IrFrame
    /\ ir_now < MaxScraperTime
    /\ ir_now' = ir_now + 1
    /\ UNCHANGED <<ir_result, ir_last_request_time, ipc, ir_wake, attempt, ir_calls,
                   prev_request, last_request>>

\* _make_request, line 103: a caller of the scraper enters _rate_limit
IrCall ==
    /\ IrFrame
    /\ ipc = "idle"
    /\ ir_calls < MaxScraperCalls
    /\ ipc' = "read"
    /\ ir_result' = "none"
    /\ UNCHANGED <<ir_now, ir_last_request_time, ir_wake, attempt, ir_calls,
                   prev_request, last_request>>

\* _rate_limit, lines 83-86: read the clock and decide to sleep
IrRead ==
    /\ IrFrame
    /\ ipc = "read"
    /\ LET elapsed == ir_now - ir_last_request_time
       IN IF elapsed < ir_min_request_interval
          THEN /\ ir_wake' = ir_now + (ir_min_request_interval - elapsed)
               /\ ipc' = "sleep"
          ELSE /\ ipc' = "stamp"
               /\ UNCHANGED ir_wake
    /\ UNCHANGED <<ir_result, ir_now, ir_last_request_time, attempt, ir_calls, prev_request,
                   last_request>>

\* _rate_limit, line 86: time.sleep(sleep_time) returns
IrWake ==
    /\ IrFrame
    /\ ipc = "sleep"
    /\ ir_now >= ir_wake
    /\ ipc' = "stamp"
    /\ UNCHANGED <<ir_result, ir_now, ir_last_request_time, ir_wake, attempt, ir_calls,
                   prev_request, last_request>>

\* _rate_limit, line 87: self.last_request_time = time.time(); then
\* _make_request, line 114, starts the loop "for attempt in range(max_retries)"
IrStamp ==
    /\ IrFrame
    /\ ipc = "stamp"
    /\ ir_last_request_time' = ir_now
    /\ attempt' = 0
    /\ ipc' = "get"
    /\ UNCHANGED <<ir_result, ir_now, ir_wake, ir_calls, prev_request, last_request>>

\* _make_request, line 116: requests.get sends the request
IrGet ==
    /\ IrFrame
    /\ ipc = "get"
    /\ prev_request' = last_request
    /\ last_request' = ir_now
    /\ ipc' = "wait"
    /\ UNCHANGED <<ir_result, ir_now, ir_last_request_time, ir_wake, attempt, ir_calls>>

\* _make_request, lines 117-118: the response arrives and is returned
IrSuccess ==
    /\ IrFrame
    /\ ipc = "wait"
    /\ ipc' = "idle"
    /\ ir_calls' = ir_calls + 1
    /\ ir_result' = "response"
    /\ UNCHANGED <<ir_now, ir_last_request_time, ir_wake, attempt, prev_request,
                   last_request>>

\* mutant: the handler gives up one attempt later
IsLastAttempt_OneMore(a) == a = max_retries

\* _make_request, line 120: "if attempt == self.max_retries - 1"
IsLastAttempt(a) == a = max_retries - 1

\* _make_request, lines 119-122: requests.get or raise_for_status raised.
\* The last attempt raises IRScraperError, which the callers catch; an earlier
\* one sleeps 2 ** attempt seconds before the next iteration.
IrFailure ==
    /\ IrFrame
    /\ ipc = "wait"
    /\ IF IsLastAttempt(attempt)
       THEN /\ ipc' = "idle"
            /\ ir_calls' = ir_calls + 1
            /\ ir_result' = "IRScraperError"
            /\ UNCHANGED ir_wake
       ELSE /\ ipc' = "backoff"
            /\ ir_wake' = ir_now + backoff(attempt)
            /\ UNCHANGED <<ir_calls, ir_result>>
    /\ UNCHANGED <<ir_now, ir_last_request_time, attempt, prev_request, last_request>>

\* _make_request, line 122 and line 114: the sleep returns and the loop
\* takes the next attempt, without a call of _rate_limit
IrRetry ==
    /\ IrFrame
    /\ ipc = "backoff"
    /\ ir_now >= ir_wake
    /\ attempt' = attempt + 1
    /\ ipc' = "get"
    /\ UNCHANGED <<ir_result, ir_now, ir_last_request_time, ir_wake, ir_calls, prev_request,
                   last_request>>

IrNext ==
    \/ IrTick
    \/ IrCall
    \/ IrRead
    \/ IrWake
    \/ IrStamp
    \/ IrGet
    \/ IrSuccess
    \/ IrFailure
    \/ IrRetry

(***************************************************************************)
(* pipeline/publishers/email.py: the send loop of EmailPublisher.publish   *)
(* (lines 260-328) and the delivery record publish_phase saves for its     *)
(* result, for content whose row and audience publish has in hand.         *)
(***************************************************************************)

SendFrame ==
    UNCHANGED <<orchVars, storeVars, poolVars, peerVars, rateVars, fetchVars, resetVars,
                pubVars, genVars, limVars, bfVars, irVars, pageVars>>

\* what one iteration of the loop over the subscribers can see:
\*   "id"     _send_via_resend returned a resend id
\*   "none"   it returned None
\*   "raised" it, or _personalize_email, raised
SendOutcomes == {"id", "none", "raised"}

\* lines 282-284: sent_count
SentCount(os) == Cardinality({k \in 1..Len(os) : os[k] = "id"})

\* lines 285-296: failed_count
FailedCount(os) == Cardinality({k \in 1..Len(os) : os[k] # "id"})

SendIdle ==
    /\ send_pc = "off"
    /\ send_items = 0
    /\ send_item = 0
    /\ audience = 0
    /\ outcomes = <<>>
    /\ delivery_status = [c \in Contents |-> "none"]
    /\ send_failures = [c \in Contents |-> 0]

\* publish_phase at line 347 of a live run, with its ready content
SendInit ==
    /\ send_pc = "loop"
    /\ send_items \in 1..MaxContent
    /\ send_item = 1
    /\ audience \in 1..MaxAudience
    /\ outcomes = <<>>
    /\ delivery_status = [c \in Contents |-> "none"]
    /\ send_failures = [c \in Contents |-> 0]

\* publish, lines 264-296: one iteration of "for subscriber in subscribers"
SendSubscriber ==
    /\ SendFrame
    /\ send_pc = "loop"
    /\ Len(outcomes) < audience
    /\ \E o \in SendOutcomes : outcomes' = Append(outcomes, o)
    /\ UNCHANGED <<send_pc, send_items, send_item, audience, delivery_status,
                   send_failures>>

\* publish, lines 298-328: the PublishResult; publish_phase, lines 358-366:
\* save_delivery_record inserts one row with result.status.value, or raises
\* DatabaseError, which the loop catches; then the next item.
SendResult ==
    /\ SendFrame
    /\ send_pc = "loop"
    /\ Len(outcomes) = audience
    /\ LET status == overall_status(SentCount(outcomes), FailedCount(outcomes))
       IN \/ delivery_status' = [delivery_status EXCEPT ![send_item] = status]
          \/ UNCHANGED delivery_status
    /\ send_failures' = [send_failures EXCEPT ![send_item] = FailedCount(outcomes)]
    /\ outcomes' = <<>>
    /\ IF send_item < send_items
       THEN send_item' = send_item + 1 /\ UNCHANGED send_pc
       ELSE send_pc' = "done" /\ UNCHANGED send_item
    /\ UNCHANGED <<send_items, audience>>

SendNext ==
    \/ SendSubscriber
    \/ SendResult

(***************************************************************************)
(* pipeline/fetchers/ir_scraper.py: IRPageScraper.scrape_for_filing and    *)
(* the ir_pages row of one company, called by one scraper instance.        *)
(***************************************************************************)

PageFrame ==
    UNCHANGED <<orchVars, storeVars, poolVars, peerVars, rateVars, fetchVars, resetVars,
                pubVars, genVars, limVars, bfVars, irVars, sendVars>>

\* line 809: WHEN consecutive_failures >= 5 THEN 'failed'
failure_threshold == 5

\* mutant: a page is scraped whatever its status
ScrapingAllowed_IgnoresStatus(enabled, status) == enabled

\* line 760: "if not scraping_enabled or status != 'active'" returns (0, 0)
ScrapingAllowed(enabled, status) == enabled /\ status = "active"

\* mutant: the CASE sees the counter after its increment
StatusAfterFailure_CountsThisOne(status, n) ==
    IF n + 1 >= failure_threshold THEN "failed" ELSE status

\* lines 808-811: status = CASE WHEN consecutive_failures >= 5 THEN 'failed'
\* ELSE status END; an UPDATE's expressions read the row as it was before it
StatusAfterFailure(status, n) == IF n >= failure_threshold THEN "failed" ELSE status

PageIdle ==
    /\ page_exists = FALSE
    /\ scraping_enabled = FALSE
    /\ page_status = "active"
    /\ consecutive_failures = 0
    /\ error_message = 0
    /\ scrape_calls = 0
    /\ scrapes = 0
    /\ last_call = "none"

\* the ir_pages row of a company before the first scrape
PageInit ==
    /\ page_exists \in BOOLEAN
    /\ scraping_enabled \in BOOLEAN
    /\ page_status = "active"
    /\ consecutive_failures = 0
    /\ error_message = 0
    /\ scrape_calls = 0
    /\ scrapes = 0
    /\ last_call = "none"

\* scrape_for_filing, lines 741-763: no ir_pages row, scraping disabled or a
\* status other than 'active': return (0, 0)
ScrapeSkipped ==
    /\ PageFrame
    /\ scrape_calls < MaxScrapes
    /\ ~page_exists \/ ~ScrapingAllowed(scraping_enabled, page_status)
    /\ scrape_calls' = scrape_calls + 1
    /\ last_call' = "skipped"
    /\ UNCHANGED <<page_exists, scraping_enabled, page_status, consecutive_failures,
                   error_message, scrapes>>

\* scrape_for_filing, lines 769-797: scrape, save, link, reset the counter
\* and the message, commit
ScrapeSucceeded ==
    /\ PageFrame
    /\ scrape_calls < MaxScrapes
    /\ page_exists /\ ScrapingAllowed(scraping_enabled, page_status)
    /\ scrape_calls' = scrape_calls + 1
    /\ scrapes' = scrapes + 1
    /\ consecutive_failures' = 0
    /\ error_message' = 0
    /\ last_call' = "scraped"
    /\ UNCHANGED <<page_exists, scraping_enabled, page_status>>

\* scrape_for_filing, lines 799-819: an exception of the scrape, of the save,
\* of the link or of the update: count the failure, keep the message, switch
\* the status, commit and re-raise.  When the handler's own UPDATE or commit
\* raises, nothing is committed.
ScrapeFailed ==
    /\ PageFrame
    /\ scrape_calls < MaxScrapes
    /\ page_exists /\ ScrapingAllowed(scraping_enabled, page_status)
    /\ scrape_calls' = scrape_calls + 1
    /\ scrapes' = scrapes + 1
    /\ \/ /\ consecutive_failures' = consecutive_failures + 1
          /\ error_message' = scrape_calls + 1
          /\ page_status' = StatusAfterFailure(page_status, consecutive_failures)
          /\ last_call' = "failed"
       \/ /\ last_call' = "handler_raised"
          /\ UNCHANGED <<consecutive_failures, error_message, page_status>>
    /\ UNCHANGED <<page_exists, scraping_enabled>>

PageNext ==
    \/ ScrapeSkipped
    \/ ScrapeSucceeded
    \/ ScrapeFailed

StageIdle == PubIdle /\ GenIdle /\ LimIdle /\ BfIdle /\ IrIdle /\ SendIdle /\ PageIdle

(***************************************************************************)
(* Specifications                                                          *)
(***************************************************************************)

InitOrch ==
    /\ OrchInit /\ StoreIdle /\ PoolIdle /\ PeerIdle /\ RateIdle /\ FetchIdle /\ ResetIdle
    /\ StageIdle

InitAnalyze == AnalyzeInit /\ RateIdle /\ FetchIdle /\ ResetIdle /\ StageIdle

InitRate ==
    /\ RateInit /\ OrchIdle /\ StoreIdle /\ PoolIdle /\ PeerIdle /\ FetchIdle /\ ResetIdle
    /\ StageIdle

InitStore == StoreInit /\ StageIdle

InitPublish ==
    /\ PubInit /\ OrchIdle /\ StoreIdle /\ PoolIdle /\ PeerIdle /\ RateIdle /\ FetchIdle
    /\ ResetIdle /\ GenIdle /\ LimIdle /\ BfIdle /\ IrIdle /\ SendIdle /\ PageIdle

InitGenerate ==
    /\ GenInit /\ OrchIdle /\ StoreIdle /\ PoolIdle /\ PeerIdle /\ RateIdle /\ FetchIdle
    /\ ResetIdle /\ PubIdle /\ LimIdle /\ BfIdle /\ IrIdle /\ SendIdle /\ PageIdle

InitLimiters ==
    /\ LimInit /\ OrchIdle /\ StoreIdle /\ PoolIdle /\ PeerIdle /\ RateIdle /\ FetchIdle
    /\ ResetIdle /\ PubIdle /\ GenIdle /\ BfIdle /\ IrIdle /\ SendIdle /\ PageIdle

InitBackfill ==
    /\ BfInit /\ OrchIdle /\ StoreIdle /\ PoolIdle /\ PeerIdle /\ RateIdle /\ FetchIdle
    /\ ResetIdle /\ PubIdle /\ GenIdle /\ LimIdle /\ IrIdle /\ SendIdle /\ PageIdle

InitScraper ==
    /\ IrInit /\ OrchIdle /\ StoreIdle /\ PoolIdle /\ PeerIdle /\ RateIdle /\ FetchIdle
    /\ ResetIdle /\ PubIdle /\ GenIdle /\ LimIdle /\ BfIdle /\ SendIdle /\ PageIdle

InitSend ==
    /\ SendInit /\ OrchIdle /\ StoreIdle /\ PoolIdle /\ PeerIdle /\ RateIdle /\ FetchIdle
    /\ ResetIdle /\ PubIdle /\ GenIdle /\ LimIdle /\ BfIdle /\ IrIdle /\ PageIdle

InitPage ==
    /\ PageInit /\ OrchIdle /\ StoreIdle /\ PoolIdle /\ PeerIdle /\ RateIdle /\ FetchIdle
    /\ ResetIdle /\ PubIdle /\ GenIdle /\ LimIdle /\ BfIdle /\ IrIdle /\ SendIdle

InitRunners == InitAnalyze \/ InitGenerate

RunnersNext ==
    \/ AnalyzeNext
    \/ GenRunnerNext

\* the orchestrator's monitor loop and the store it polls
SpecOrch == InitOrch /\ [][OrchNext]_vars

\* one run of analyze_parallel.py beside a second analyzer process
SpecAnalyze == InitAnalyze /\ [][AnalyzeNext]_vars

\* sequential calls of one rate limiter instance
SpecRate == InitRate /\ [][RateNext]_vars

\* two runs of the fetch stage beside the analyzer and the re-analysis tool
SpecStore == InitStore /\ [][StoreNext]_vars

\* one run of the publish stage, by either of its runners
SpecPublish == InitPublish /\ [][PubNext]_vars

\* runs of generate_parallel.py while analyze workers still commit content
SpecGenerate == InitGenerate /\ [][GenNext]_vars

\* concurrent workers, each with its own fetcher
SpecLimiters == InitLimiters /\ [][LimNext]_vars

\* one run of analyze_backfill.py
SpecBackfill == InitBackfill /\ [][BfNext]_vars

SpecScraper == InitScraper /\ [][IrNext]_vars

SpecSend == InitSend /\ [][SendNext]_vars

SpecPage == InitPage /\ [][PageNext]_vars

\* one of the two parallel stage runners, started from its command line
SpecRunners == InitRunners /\ [][RunnersNext]_vars

(***************************************************************************)
(* Claims about the orchestrator                                           *)
(***************************************************************************)

DefaultMode == ~args.analyze_only /\ ~args.generate_only

\* C1: in the default (overlap) mode the monitor loop launches generate at
\* most once; the launching poll saw percent >= 10; once a trigger poll has
\* seen percent >= 10 and its decision has been taken, generate has been
\* launched exactly once, so the launch is at the first such poll and no
\* later poll launches again.
C1_LaunchOnceAtThreshold ==
    DefaultMode =>
        /\ launches <= 1
        /\ (launches = 1 => launchPercent >= Threshold /\ reached)
        /\ (launches = 0 => launchPercent = -1)
        /\ (reached /\ opc # "decide" => launches = 1)
        /\ (~reached => launches = 0)

\* C1 witness: a run that polled a non-zero progress below 10%, later
\* launched generate, kept looping and reached the final status.
C1_Witness ==
    /\ DefaultMode
    /\ sawBelow
    /\ launches = 1
    /\ launchPercent >= Threshold
    /\ opc = "final"

(***************************************************************************)
(* Claims about the parallel stage runner                                  *)
(***************************************************************************)

\* candidates during whose processing an exception was raised
RaisedTasks == {i \in 1..N : task[i].excAt # "-"}

\* candidates that process_filing skipped because the check found them done
SkippedTasks == {i \in 1..N : task[i].excAt = "-" /\ task[i].pf = "None"}

\* invocations of process_filing for filing f that are about to save
AtSave(f) ==
    Cardinality({i \in 1..N : pending_filings[i] = f /\ task[i].pc = "save"})
    + (IF peerPc = "save" /\ peerFiling = f THEN 1 ELSE 0)

\* C2: a batch of N candidates of which exactly K raise ends without raising
\* and reports succeeded = N-K and failed = K.
C2_IsolationCounts ==
    /\ mpc # "crashed"
    /\ mpc = "summary" =>
          /\ successful = N - Cardinality(RaisedTasks)
          /\ failed = Cardinality(RaisedTasks)

\* C3: at every moment the number of candidates being processed is at most
\* the --workers value.
C3_ConcurrencyBound == Cardinality(ActiveTasks) <= pargs.workers

\* C3 witness: every worker is busy while another candidate waits in the queue.
C3_Witness ==
    /\ Cardinality(ActiveTasks) = pargs.workers
    /\ QueuedTasks # {}

\* C5: nothing re-validates between the skip check and the insert: every
\* invocation of process_filing that passed check_if_analyzed and finished
\* its analysis executes the INSERT, whatever was committed for the filing in
\* the meantime; an invocation is past the check only if the check saw no
\* published content.
C5_CheckThenActInsert ==
    /\ \A f \in Filings : insertAttempts[f] + AtSave(f) = savesEntered[f]
    /\ \A i \in 1..N : task[i].pc \in {"analyze", "save"} =>
          task[i].rowsSeen >= 0 /\
          ~(task[i].rowsSeen > 0 /\ content_status_default = "published")

\* C5 witness: a pool worker and the second analyzer both checked the same
\* filing while it had no content row, both analysed it and both inserted a
\* content record, with a schema under which the check detects content.
C5_Witness ==
    \E i \in 1..N :
        /\ pending_filings[i] = peerFiling
        /\ content_status_default = "published"
        /\ task[i].rowsSeen = 0
        /\ peerRowsSeen = 0
        /\ insertAttempts[peerFiling] = 2
        /\ contentRows[peerFiling] = 2

\* C8 as stated: process_filing never lets an exception raised while
\* analysing or persisting reach its caller.
C8_ProcessFilingNeverPropagates ==
    \A i \in 1..N : task[i].excAt \in {"analyze", "save"} => task[i].pf # "raised"

\* C8 amended: process_filing re-raises every exception raised while
\* analysing or persisting; its caller analyze_filing turns it into the
\* failure tuple, so no exception reaches the pool's result collection.
C8_ReraisedThenCaughtByCaller ==
    /\ \A i \in 1..N : task[i].excAt \in {"analyze", "save"} =>
          task[i].pf = "raised" /\ task[i].res = "error"
    /\ \A i \in 1..N : task[i].res # "raised"
    /\ mpc # "crashed"

\* C8 witness: a unit whose save raised has been collected as a failure and
\* the run reached its summary.
C8_Witness ==
    /\ mpc = "summary"
    /\ \E i \in 1..N : task[i].excAt = "save" /\ task[i].res = "error" /\ i \in collected
    /\ \E i \in 1..N : task[i].excAt = "analyze"

\* C9: a unit the idempotency check finds already done is counted in neither
\* the succeeded nor the failed total.
C9_SkipCountedNeither ==
    mpc = "summary" => successful + failed = N - Cardinality(SkippedTasks)

\* C10: during collection succeeded + failed equals the number of units
\* collected so far; at the summary every unit has finished and
\* succeeded + failed equals the number of candidates.
C10_CompleteAggregate ==
    /\ mpc \in {"collect", "summary"} =>
          /\ completed = Cardinality(collected)
          /\ successful + failed = completed
    /\ mpc = "summary" =>
          /\ \A i \in 1..N : task[i].pc = "finished"
          /\ successful + failed = N

\* C10 witness: the summary of a run of at least two units in which every
\* unit failed.
C10_Witness ==
    /\ mpc = "summary"
    /\ N >= 2
    /\ failed = N
    /\ successful = 0

(***************************************************************************)
(* Claims about the rate limiter                                           *)
(***************************************************************************)

\* C4 as stated: every return of _rate_limit is at least min_request_interval
\* after the previous return.
C4_ReturnsSpaced ==
    prevReturn >= 0 => lastReturn - prevReturn >= min_request_interval

\* C4 amended: every timestamp _rate_limit records is at least
\* min_request_interval after the previously recorded one, and n sequential
\* calls take at least (n-1) * min_request_interval from the first call to
\* the last return.
C4_StampsSpaced ==
    /\ prevStamp >= 0 => lastStamp - prevStamp >= min_request_interval
    /\ calls >= 1 => lastReturn - firstStart >= (calls - 1) * min_request_interval

\* C4 witness: three calls have returned, a call had to sleep, and the total
\* is exactly two intervals.
C4_Witness ==
    /\ calls = 3
    /\ slept
    /\ lastReturn - firstStart = 2 * min_request_interval

(***************************************************************************)
(* Claims about the store and the fetch stage                              *)
(***************************************************************************)

\* the order of the filing statuses; "absent" is the missing row
Rank(st) ==
    CASE st = "absent" -> -1
      [] st = "pending" -> 0
      [] st = "fetched" -> 1
      [] st = "analyzed" -> 2
      [] st = "published" -> 3
      [] OTHER -> 4

\* the step of the re-analysis tool that resets filing f
IsResetOf(f) == resetPc = "next" /\ resetPc' = "reanalyze" /\ resetFiling' = f

\* C6: no step moves a filing's status backward in the order
\* pending < fetched < analyzed < published, except into failed and except
\* the reset by delete_existing_content.
C6_StatusMonotone ==
    [][\A f \in Filings :
          \/ Rank(filingStatus'[f]) >= Rank(filingStatus[f])
          \/ filingStatus'[f] = "failed"
          \/ IsResetOf(f)]_vars

\* C6 witness: a filing that was fetched, analysed, reset by the tool and
\* analysed again.
C6_Witness ==
    \E f \in Filings :
        /\ f \in resets
        /\ f \in savedBy[1]
        /\ filingStatus[f] = "analyzed"
        /\ contentRows[f] >= 1
        /\ insertAttempts[f] >= 2

RanToCompletion == mpc \in {"returned", "summary"}

\* no candidate was handed to the pool and no worker touched one
NoUnitProcessed ==
    /\ nsubmitted = 0
    /\ threads = 0
    /\ \A i \in Filings : task[i] = NewTask

\* C11: the runner exits with code 0 whenever it runs to completion, whatever
\* the number of failed units, and exits with code 1 when the connect or the
\* candidate query raised, in which case no unit is processed.
C11_ExitCodes ==
    /\ RanToCompletion => exit_code = 0
    /\ store_failed => exit_code = 1 /\ NoUnitProcessed

\* a run in which every unit failed has completed with exit code 0
C11_Witness ==
    /\ mpc = "summary"
    /\ exit_code = 0
    /\ N >= 1
    /\ failed = N
    /\ \E i \in 1..N : task[i].res = "error"

(***************************************************************************)
(* The publish stage in dry-run mode (SpecPublish)                         *)
(***************************************************************************)

\* the run is over and its loop has visited every candidate
PubRunOver == ppc = "done" /\ pubIdx = Len(ready_content)

\* C12: in dry-run mode the publish stage never saves a delivery record and
\* never sends an email, so the content ready to publish is the same set
\* throughout the run as before it.
C12_DryRunNoEffects ==
    pubArgs.dry_run =>
        /\ emails_sent = 0
        /\ deliveries = deliveries0
        /\ ReadySet(pubArgs.runner) = ready0

\* a dry run of publish_phase has gone through a non-empty candidate list
\* with subscribers to send to
C12_Witness ==
    /\ pubArgs.dry_run
    /\ pubArgs.runner = "phase"
    /\ PubRunOver
    /\ Len(ready_content) >= 1
    /\ subscribers >= 1

\* C13: a --dry-run run of the publish runner over N ready content items that
\* each pass validation reports N succeeded and 0 failed.
C13_DryRunReportsAllValidated ==
    ( /\ pubArgs.runner = "backfill"
      /\ pubArgs.dry_run
      /\ PubRunOver
      /\ ~pubDbFailed
      /\ \A i \in 1..Len(ready_content) : pcontent[ready_content[i]].email_html )
    => /\ published_count = Len(ready_content)
       /\ failed_count = 0
       /\ total_failed = 0

(***************************************************************************)
(* The orchestrator and its stage processes (SpecOrch)                     *)
(***************************************************************************)

Exited(c) == ProcessOf(c) \in {"exit0", "exit1"}

\* main() has passed the monitor loop and the drain of analyze's output
PastDrain == opc \in {"wait_generate", "wait_publish", "final", "done"}

\* C14: the orchestrator decides the success of each stage from the exit code
\* of its process: once the orchestrator is done, a stage whose process
\* exited non-zero has been reported as failed, and one that exited 0 has not.
C14_StageSuccessFromExitCode ==
    opc = "done" =>
        \A c \in Stages :
            /\ ProcessOf(c) = "exit1" => verdict[c] = "failed"
            /\ ProcessOf(c) = "exit0" => verdict[c] # "failed"

C16_PollingDrainsEveryChild ==
    [][ (opc = "loop" /\ opc' \in {"poll", "status"}) =>
            \A c \in Stages :
                (ProcessOf(c) = "running" /\ pipe[c] > 0) => pipe'[c] < pipe[c] ]_vars

(***************************************************************************)
(* The generate stage                                                      *)
(***************************************************************************)

\* C17: under sequential runs, a content item that a run of the generate
\* stage has processed successfully is not selected as a candidate and
\* processed again by a later run.
C17_NoReprocessingByLaterRun ==
    \A r1 \in Runs : \A r2 \in Runs :
       r1 < r2 =>
          \A c \in generatedBy[r1] : ~(c \in selectedBy[r2] /\ c \in startedBy[r2])

\* C18: every candidate of the generate stage has a committed content row
\* with a non-null analysis summary, whatever the analyze workers are doing.
C18_CandidatesAreCommittedAnalyses ==
    \A i \in 1..Len(pending_content) :
       /\ gcontent[pending_content[i]].row = "committed"
       /\ gcontent[pending_content[i]].executive_summary

\* a worker of the run is generating while an analyze worker holds an
\* uncommitted row, which has a summary and no blog HTML and is no candidate
C18_Witness ==
    /\ pending_content # <<>>
    /\ \E i \in Contents : gtask[i].pc \in GenRunning
    /\ \E c \in Contents :
         /\ gcontent[c].row = "uncommitted"
         /\ gcontent[c].executive_summary
         /\ c \notin selectedBy[grun]

(***************************************************************************)
(* One rate limiter per worker                                             *)
(***************************************************************************)

\* C19: the limiter instances of concurrent workers do not constrain one
\* another: a worker is made to sleep only by an earlier call of its own,
\* so that every worker can issue a call within one min_interval.
C19_InstancesIndependent ==
    \A w \in RateWorkers : wslept[w] => wcalls[w] >= 1

\* every one of the W workers has issued its first call, all of them within
\* less than one interval, and none had to sleep
C19_Witness ==
    /\ MaxRateWorkers >= 2
    /\ \A w \in RateWorkers : wcalls[w] = 1 /\ ~wslept[w] /\ wstamp[w] # -1
    /\ \A v \in RateWorkers : \A w \in RateWorkers :
          wstamp[v] - wstamp[w] < min_request_interval

(***************************************************************************)
(* The --workers bounds of the parallel runners                            *)
(***************************************************************************)

AnalyzeWorkersOutOfRange == mpc # "off" /\ pargs.workers \notin 1..10

GenerateWorkersOutOfRange == gpc # "off" /\ gargs.workers \notin 1..15

\* C20: a parallel runner never starts its worker pool with a --workers
\* value outside 1..10 (analyze) or 1..15 (generate): it exits with code 1
\* before the store is opened or a unit processed.
C20_WorkersBoundsEnforced ==
    /\ AnalyzeWorkersOutOfRange =>
          /\ mpc \in {"validate", "exit1"}
          /\ mpc = "exit1" => exit_code = 1
          /\ threads = 0 /\ nsubmitted = 0 /\ pending_filings = <<>>
          /\ ~store_failed
          /\ NoUnitProcessed
    /\ GenerateWorkersOutOfRange =>
          /\ gpc \in {"validate", "exit1"}
          /\ gpc = "exit1" => gen_exit = 1
          /\ gthreads = 0 /\ gsubmitted = 0 /\ pending_content = <<>>
          /\ gen_connects = 0
          /\ \A r \in Runs : selectedBy[r] = {} /\ startedBy[r] = {}

\* generate_parallel.py was given --workers 16 and has exited with code 1
C20_Witness ==
    /\ gargs.workers = 16
    /\ gpc = "exit1"
    /\ gen_exit = 1
    /\ gen_connects = 0

(***************************************************************************)
(* The summary file of a stage runner (SpecPublish)                        *)
(***************************************************************************)

\* C21: a stage runner that ends with exit code 0 has written its summary
\* file, and the counts in the file are those of the batch aggregate.
C21_ExitZeroHasSummary ==
    (pubArgs.runner = "backfill" /\ pub_exit = 0) =>
        /\ summary_file.written
        /\ summary_file.passed = published_count
        /\ summary_file.failed = failed_count

(***************************************************************************)
(* The skip check of process_filing (SpecAnalyze)                          *)
(***************************************************************************)

\* C22: process_filing with skip_existing=True, called for a filing that has
\* a content record saved by save_to_database, is skipped: it returns no
\* content id, runs no analysis and inserts no further content record.
C22_SavedFilingIsSkipped ==
    \A i \in 1..N :
       task[i].rowsSeen > 0 =>
          /\ task[i].pc = "finished"
          /\ task[i].pf = "None"
          /\ task[i].excAt = "-"

(***************************************************************************)
(* The fallback of analyze_backfill.py (SpecBackfill)                      *)
(***************************************************************************)

BfOver == bpc \in {"done", "exit1"}

\* the run met no failure of the environment: the analyzer was constructed,
\* no store call raised and the summary file could be written
BfEnvironmentOk == bf_cause \notin {"construct", "store", "file"}

\* C23: with an analyzer that offers no batch operation the runner falls back
\* to a loop over the pending filings, counts each item's failure, and ends
\* with the summary written and exit code 0.
C23_FallbackFinishes ==
    (BfOver /\ ~Offers("analyze_batch") /\ BfEnvironmentOk) =>
        /\ bf_exit = 0
        /\ pending_count > 0 =>
              /\ bf_fallback
              /\ analyze_summary.written
              /\ analyze_summary.passed + analyze_summary.failed = bf_filings

(***************************************************************************)
(* The aggregate and the order of completion (SpecAnalyze)                 *)
(***************************************************************************)

\* C24: the succeeded and failed counts depend only on the outcome of each
\* unit, not on the order in which main() consumes the futures: whatever that
\* order, they are the numbers of consumed units with and without success.
C24_AggregateIsOrderFree ==
    mpc \in {"collect", "summary"} =>
        /\ successful = Cardinality({i \in collected : task[i].res = "ok"})
        /\ failed = Cardinality({i \in collected : task[i].res # "ok"})

\* the second unit submitted was consumed first, a success, while the first
\* unit, a failure, has finished and is still to be consumed
C24_Witness ==
    /\ mpc = "collect"
    /\ N = 2
    /\ collected = {2}
    /\ task[2].res = "ok"
    /\ task[1].pc = "finished"
    /\ task[1].res = "error"
    /\ successful = 1
    /\ failed = 0

(***************************************************************************)
(* The modes of the orchestrator (SpecOrch)                                *)
(***************************************************************************)

\* start_generate_phase has been called
GenerateLaunched == launches > 0 \/ opc \in {"wait_generate_only", "returned"}

\* start_analyze_phase has been called
AnalyzeLaunched == opc \notin {"start", "wait_generate_only", "returned"}

C26_DefaultModeLaunchesGenerate ==
    (~args.analyze_only /\ ~args.generate_only /\ opc = "done") =>
        /\ launches >= 1
        /\ args.publish => verdict["publish"] # "none"

\* C27: save_to_database is all-or-nothing in the committed store: no step
\* adds a content row for a filing without leaving the filing's status
\* 'analyzed', and no step turns a filing's status into 'analyzed' without
\* adding exactly one content row for it; a save that raises changes neither.
C27_SaveAllOrNothing ==
    [][\A f \in Filings :
          /\ contentRows'[f] > contentRows[f] => filingStatus'[f] = "analyzed"
          /\ (filingStatus'[f] = "analyzed" /\ filingStatus[f] # "analyzed")
                => contentRows'[f] = contentRows[f] + 1
          /\ (insertAttempts'[f] > insertAttempts[f] /\ contentRows'[f] = contentRows[f])
                => filingStatus'[f] = filingStatus[f]]_vars

\* C27 witness: one worker's save committed (content row and status
\* 'analyzed') while another worker's save raised and left its filing
\* pending without content.
C27_Witness ==
    \E i, j \in 1..Len(pending_filings) :
        /\ task[i].pc = "finished" /\ task[i].pf = "content_id"
        /\ contentRows[pending_filings[i]] = 1
        /\ filingStatus[pending_filings[i]] = "analyzed"
        /\ task[j].excAt = "save"
        /\ insertAttempts[pending_filings[j]] = 1
        /\ contentRows[pending_filings[j]] = 0
        /\ filingStatus[pending_filings[j]] = "pending"

\* the re-analysis of filing f by the maintenance script is over
ReanalysisOver(f) == f \in resets /\ ~(resetPc = "reanalyze" /\ resetFiling = f)

\* C28: a filing that the maintenance script has reset and whose re-analysis
\* is over without a content row (it failed) is selected by the candidate
\* query of the analyze stage.
C28_ResetFilingStaysCandidate ==
    \A f \in Filings :
        (ReanalysisOver(f) /\ contentRows[f] = 0) => IsPending(f)

\* C29: when a unit's task has returned, the connection the worker opened
\* for it is closed, whether the unit succeeded, was skipped or failed; at
\* the end of the batch no worker connection is open.
C29_WorkerConnectionsClosed ==
    \A i \in Filings : task[i].pc = "finished" => task[i].conn # "open"

\* C30: any two consecutive requests sent by one IRPageScraper instance,
\* retries of a failed request included, are at least min_request_interval
\* apart.
C30_RequestsSpaced ==
    prev_request # -1 => last_request - prev_request >= ir_min_request_interval

\* the content items the run has selected for publishing
SelectedForPublishing == {ready_content[k] : k \in 1..Len(ready_content)}

\* C31: a content item that had a committed 'sent' delivery record when the
\* run of the publish stage started is never selected for publishing by it,
\* whichever runner of the stage it is.
C31_SentNeverSelectedAgain ==
    \A c \in Contents : deliveries0[c].sent > 0 => c \notin SelectedForPublishing

C33_FailedIsFinal ==
    [][page_status = "failed" =>
          UNCHANGED <<page_status, consecutive_failures, error_message, scrapes>>]_vars

\* C33 witness: a call made after the page was switched to 'failed' has
\* returned without scraping.
C33_Witness ==
    /\ page_status = "failed"
    /\ last_call = "skipped"
    /\ scrapes = failure_threshold + 1
    /\ consecutive_failures = failure_threshold + 1
    /\ error_message # 0

\* C34: a call switches the page to 'failed' only when it is a failed scrape
\* that found at least 5 consecutive failures recorded (it is the 6th at
\* least), and every successful scrape leaves the counter at 0.
C34_FailedOnSixthFailure ==
    [][/\ (page_status' = "failed" /\ page_status # "failed")
            => /\ last_call' = "failed"
               /\ consecutive_failures >= 5
               /\ consecutive_failures' >= 6
       /\ (scrape_calls' # scrape_calls /\ last_call' = "scraped")
            => consecutive_failures' = 0]_vars

\* C34 witness: a failure, a success, then six failures in a row: the page
\* is switched to 'failed' by the eighth scrape, the sixth failure since the
\* success, and not by the sixth scrape.
C34_Witness ==
    /\ page_status = "failed"
    /\ consecutive_failures = 6
    /\ scrapes = 8
    /\ last_call = "failed"

\* the run of the generate stage has executed its candidate query
GenCandidatesFixed == gpc \notin {"validate", "query"}

\* C35: the candidate set of a run of the generate stage is fixed by its one
\* query: afterwards the run's list does not change, the run writes HTML
\* only for items of the list, and an item the analyze stage commits after
\* the query is not in it.
C35_CandidatesFixedAtStart ==
    [][(GenCandidatesFixed /\ grun' = grun) =>
          /\ pending_content' = pending_content
          /\ selectedBy'[grun] = selectedBy[grun]
          /\ \A c \in Contents :
                /\ (gcontent'[c].blog_html /\ ~gcontent[c].blog_html)
                      => c \in selectedBy[grun]
                /\ (gcontent[c].row = "uncommitted" /\ gcontent'[c].row = "committed")
                      => c \notin selectedBy[grun]]_vars

\* C35 witness: the run has returned after generating every candidate, its
\* limit was not reached, and a committed item with an analysis summary has
\* no generated HTML: it was committed after the query.
C35_Witness ==
    /\ grun = 1
    /\ gpc = "returned"
    /\ selectedBy[1] # {}
    /\ generatedBy[1] = selectedBy[1]
    /\ Cardinality(selectedBy[1]) < gargs.limit
    /\ \E c \in Contents :
          /\ gcontent[c].row = "committed"
          /\ gcontent[c].executive_summary
          /\ ~gcontent[c].blog_html
          /\ c \notin selectedBy[1]

C37_BoundedRetries ==
    /\ attempt \in 0..(max_retries - 1)
    /\ ir_result = "IRScraperError" => attempt = max_retries - 1
    /\ ir_result # "none" => ipc = "idle"

\* C37 witness: the first call has raised IRScraperError after its third
\* attempt, which followed the second by the back-off of 2 ** 1 seconds.
C37_Witness ==
    /\ ir_calls = 1
    /\ ipc = "idle"
    /\ ir_result = "IRScraperError"
    /\ attempt = max_retries - 1
    /\ last_request >= prev_request + backoff(1)

====
